---- MODULE Spec2Model ----
(***************************************************************************)
(* FrameNavigationsObserver (src/unnamed/part_001): the navigation and     *)
(* load-state synchronisation engine of one frame, together with the       *)
(* navigation timeline it reads (FrameNavigations) and the resolvable      *)
(* promises it settles (createPromise).                                    *)
(*                                                                         *)
(* Strings of the program whose characters matter (urls) are tuples of     *)
(* one-character strings.  undefined/null numbers are NoValue, undefined/  *)
(* null statuses are Null, an undefined object reference is index 0.       *)
(***************************************************************************)
EXTENDS Integers, Sequences, FiniteSets, TLC

VARIABLES
  history,                          \* navigations.history: the entries, oldest first; top is the last
  paintStable,                      \* what navigations.getPaintStableStatus() returns now
  defaultWaitForLocationCommandId,  \* observer field
  waitingForLoadTimeout,            \* observer field: handle of the last settlement timer set (0: undefined)
  resourceIdResolvable,             \* observer field: index in history of the entry whose resourceId is tracked (0: undefined)
  statusTriggerResolvable,          \* observer field: index in promises (0: undefined/null)
  statusTrigger,                    \* observer field
  statusTriggerStartCommandId,      \* observer field
  promises,                         \* every promise made by createStatusTriggeredPromise, in creation order
  timeouts,                         \* runtime timer queue: handles of the armed settlement timers
  resourceIdWait,                   \* the caller's waitForNavigationResourceId call: the entry it captured as top and where it stands
  timers,                           \* every Timer constructed (src/commons/Timer.ts), in creation order
  registry,                         \* the shared IRegistry[] list the timers may be given
  commands,                         \* the commands the session has issued, in order
  coreFrames,                       \* the frame ids the core tab reports now
  environments,                     \* every FrameEnvironment constructed, in creation order: its frameId
  frameEnvironments,                \* Tab field #frameEnvironments: the FrameEnvironment objects it holds
  calls,                            \* the running calls of the Tab's frameEnvironments getter and getFrameEnvironment
  last                              \* the last operation run and what it returned to its caller

vars == <<history, paintStable, defaultWaitForLocationCommandId, waitingForLoadTimeout,
          resourceIdResolvable, statusTriggerResolvable, statusTrigger,
          statusTriggerStartCommandId, promises, timeouts, resourceIdWait,
          timers, registry, commands,
          coreFrames, environments, frameEnvironments, calls, last>>

tabVars == <<coreFrames, environments, frameEnvironments, calls>>

(***************************************************************************)
(* Bounds of the model.                                                    *)
(***************************************************************************)
MaxHistory == 1      \* navigation entries the timeline records
MaxPromises == 2     \* promises createStatusTriggeredPromise makes
MaxCommands == 2     \* commands in a command list
MaxEntries == 2      \* navigation entries of the histories hasLocationTrigger walks
MaxTimers == 2       \* Timers constructed
MaxIssued == 4       \* commands the session issues
MaxFrames == 2       \* child frames of the tab
MaxCalls == 2        \* concurrent calls on the Tab
MaxEnvironments == 4 \* FrameEnvironment objects constructed
MaxTimeoutMillis == 2  \* longest timeoutMillis a Timer is constructed with

(***************************************************************************)
(* Values.                                                                 *)
(***************************************************************************)
NoValue == -1
JsFunction == -2     \* a function object, where a number is expected
Null == "null"
DefaultTimeoutMs == 60000

LoadStatus ==
  {"NavigationRequested", "HttpRequested", "HttpRedirected", "HttpResponded",
   "DomContentLoaded", "AllContentLoaded", "PaintingStable"}

ContentPaint == "ContentPaint"

LocationTrigger == {"reload", "change"}

\* The rank of each milestone.  ContentPaint sits between AllContentLoaded and
\* PaintingStable; the ranks start at 0.
LoadStatusPipeline ==
  [s \in LoadStatus \cup {ContentPaint} |->
     CASE s = "NavigationRequested" -> 0
       [] s = "HttpRequested"       -> 1
       [] s = "HttpRedirected"      -> 2
       [] s = "HttpResponded"       -> 3
       [] s = "DomContentLoaded"    -> 4
       [] s = "AllContentLoaded"    -> 5
       [] s = "ContentPaint"        -> 6
       [] s = "PaintingStable"      -> 7]

\* Property names every object inherits from Object.prototype (those the model
\* passes as a status); looking one up on an enum object or a table gives a function.
ObjectPrototypeKeys == {"constructor"}

\* whether Enum[key] is truthy: a member of the enum, or an inherited property
EnumLookup(Enum, key) == key \in Enum \/ key \in ObjectPrototypeKeys

\* LoadStatusPipeline[key] as JavaScript evaluates it: undefined for a key the
\* table neither has nor inherits
PipelineLookup(key) ==
  IF key \in DOMAIN LoadStatusPipeline THEN LoadStatusPipeline[key]
  ELSE IF key \in ObjectPrototypeKeys THEN JsFunction
  ELSE NoValue

\* !x for a number or undefined
Falsy(x) == x = NoValue \/ x = 0

\* mutant: the value is tested for truthiness
NumberIsInteger_Truthy(x) == ~Falsy(x)

\* Number.isInteger(x) for an integer, undefined or a function
NumberIsInteger(x) == x \notin {NoValue, JsFunction}

\* a >= b for numbers, undefined or a function: false as soon as one side is
\* not a number
JsGte(a, b) == a \notin {NoValue, JsFunction} /\ b \notin {NoValue, JsFunction} /\ a >= b

(***************************************************************************)
(* createPromise(timeoutMillis): a resolvable promise.  settle is its      *)
(* outcome, timeout tells whether its deadline timer is armed.             *)
(***************************************************************************)
CreatePromise(timeoutMillis) ==
  [settle |-> "pending", timeout |-> (timeoutMillis # NoValue)]

\* mutant: isResolved is never set
IsResolved_Never(p) == FALSE

IsResolved(p) == p.settle # "pending"

PromiseResolve(p) ==
  IF IsResolved(p) THEN p ELSE [settle |-> "resolved", timeout |-> FALSE]

PromiseReject(p, error) ==
  IF IsResolved(p) THEN p ELSE [settle |-> error, timeout |-> FALSE]

(***************************************************************************)
(* The navigation timeline (FrameNavigations), as the observer reads it.   *)
(***************************************************************************)
Top(hist) == hist[Len(hist)]

StatusKeys(entry) == {entry.statusChanges[i] : i \in 1..Len(entry.statusChanges)}

\* navigations.hasLoadStatus(status): the top entry records the status, or a
\* milestone other than HttpRedirected of at least its rank
HasLoadStatus(hist, status) ==
  /\ Len(hist) > 0
  /\ \/ status \in StatusKeys(Top(hist))
     \/ \E k \in StatusKeys(Top(hist)) \ {"HttpRedirected"} :
          JsGte(PipelineLookup(k), PipelineLookup(status))

\* navigations.getPaintStableStatus()
PaintStates ==
  { [isStable |-> TRUE,  timeUntilReadyMs |-> NoValue],
    [isStable |-> FALSE, timeUntilReadyMs |-> 500],
    [isStable |-> FALSE, timeUntilReadyMs |-> NoValue] }

NotPainted == [isStable |-> FALSE, timeUntilReadyMs |-> NoValue]

(***************************************************************************)
(* String.prototype.replace(pattern, '') with a string pattern: the first  *)
(* occurrence of the pattern is removed.                                   *)
(***************************************************************************)
OccursAt(s, pat, i) ==
  /\ i + Len(pat) - 1 <= Len(s)
  /\ SubSeq(s, i, i + Len(pat) - 1) = pat

Replace(s, pat) ==
  IF \E i \in 1..(Len(s) + 1) : OccursAt(s, pat, i)
  THEN LET i == CHOOSE j \in 1..(Len(s) + 1) :
                  /\ OccursAt(s, pat, j)
                  /\ \A k \in 1..(j - 1) : ~OccursAt(s, pat, k)
       IN SubSeq(s, 1, i - 1) \o SubSeq(s, i + Len(pat), Len(s))
  ELSE s

(***************************************************************************)
(* The observer's methods, as functions of the state they read and write.  *)
(* A state w is a record with one field per variable (last excepted).      *)
(***************************************************************************)
State ==
  [history |-> history, paintStable |-> paintStable,
   defaultWaitForLocationCommandId |-> defaultWaitForLocationCommandId,
   waitingForLoadTimeout |-> waitingForLoadTimeout,
   resourceIdResolvable |-> resourceIdResolvable,
   statusTriggerResolvable |-> statusTriggerResolvable,
   statusTrigger |-> statusTrigger,
   statusTriggerStartCommandId |-> statusTriggerStartCommandId,
   promises |-> promises, timeouts |-> timeouts, resourceIdWait |-> resourceIdWait]

\* clearTimeout(handle)
ClearTimeout(w, handle) == [w EXCEPT !.timeouts = @ \ {handle}]

\* mutant: a meta-tag refresh is not a reload
IsNavigationReload_NoMetaTagRefresh(reason) ==
  reason = "httpHeaderRefresh" \/ reason = "reload"

IsNavigationReload(reason) ==
  reason = "httpHeaderRefresh" \/ reason = "metaTagRefresh" \/ reason = "reload"

\* mutant: hasLocationTrigger without the in-page url adjustment exception
RECURSIVE HasLocationTriggerFrom_NoAdjust(_, _, _, _, _)
HasLocationTriggerFrom_NoAdjust(hist, trigger, sinceCommandId, i, previousLoadedUrl) ==
  IF i > Len(hist) THEN FALSE
  ELSE
    LET entry == hist[i]
        isMatch == JsGte(entry.startCommandId, sinceCommandId)
        isReload == trigger = "reload" /\ IsNavigationReload(entry.navigationReason)
        isChange ==
          /\ trigger = "change"
          /\ previousLoadedUrl # <<>>
          /\ previousLoadedUrl # entry.finalUrl
        loaded ==
          /\ \/ "HttpResponded" \in StatusKeys(entry)
             \/ "DomContentLoaded" \in StatusKeys(entry)
          /\ "HttpRedirected" \notin StatusKeys(entry)
    IN IF isMatch /\ (isReload \/ isChange) THEN TRUE
       ELSE HasLocationTriggerFrom_NoAdjust(hist, trigger, sinceCommandId, i + 1,
                                   IF loaded THEN entry.finalUrl ELSE previousLoadedUrl)

\* the loop of hasLocationTrigger from entry i on, previousLoadedUrl being the
\* url of the last loaded entry before i (<<>>: undefined)
\* mutant: a redirected entry that got a response becomes the previous loaded url
RECURSIVE HasLocationTriggerFrom_RedirectedBaseline(_, _, _, _, _)
HasLocationTriggerFrom_RedirectedBaseline(hist, trigger, sinceCommandId, i, previousLoadedUrl) ==
  IF i > Len(hist) THEN FALSE
  ELSE
    LET entry == hist[i]
        isMatch == JsGte(entry.startCommandId, sinceCommandId)
        isReload == trigger = "reload" /\ IsNavigationReload(entry.navigationReason)
        isInPageUrlAdjust ==
          /\ entry.navigationReason = "inPage"
          /\ Len(Replace(entry.finalUrl, previousLoadedUrl)) <= 1
        isChange ==
          /\ trigger = "change"
          /\ previousLoadedUrl # <<>>
          /\ previousLoadedUrl # entry.finalUrl
          /\ ~isInPageUrlAdjust
        loaded ==
          \/ "HttpResponded" \in StatusKeys(entry)
          \/ "DomContentLoaded" \in StatusKeys(entry)
    IN IF isMatch /\ (isReload \/ isChange) THEN TRUE
       ELSE HasLocationTriggerFrom_RedirectedBaseline(hist, trigger, sinceCommandId, i + 1,
                                                  IF loaded THEN entry.finalUrl ELSE previousLoadedUrl)

\* mutant: hasLocationTrigger exempts an in-page url that lost a character too
RECURSIVE HasLocationTriggerFrom_LostAdjust(_, _, _, _, _)
HasLocationTriggerFrom_LostAdjust(hist, trigger, sinceCommandId, i, previousLoadedUrl) ==
  IF i > Len(hist) THEN FALSE
  ELSE
    LET entry == hist[i]
        isMatch == JsGte(entry.startCommandId, sinceCommandId)
        isReload == trigger = "reload" /\ IsNavigationReload(entry.navigationReason)
        isInPageUrlAdjust ==
          /\ entry.navigationReason = "inPage"
          /\ \/ Len(Replace(entry.finalUrl, previousLoadedUrl)) <= 1
             \/ Len(Replace(previousLoadedUrl, entry.finalUrl)) <= 1
        isChange ==
          /\ trigger = "change"
          /\ previousLoadedUrl # <<>>
          /\ previousLoadedUrl # entry.finalUrl
          /\ ~isInPageUrlAdjust
        loaded ==
          /\ \/ "HttpResponded" \in StatusKeys(entry)
             \/ "DomContentLoaded" \in StatusKeys(entry)
          /\ "HttpRedirected" \notin StatusKeys(entry)
    IN IF isMatch /\ (isReload \/ isChange) THEN TRUE
       ELSE HasLocationTriggerFrom_LostAdjust(hist, trigger, sinceCommandId, i + 1,
                                              IF loaded THEN entry.finalUrl ELSE previousLoadedUrl)

RECURSIVE HasLocationTriggerFrom(_, _, _, _, _)
HasLocationTriggerFrom(hist, trigger, sinceCommandId, i, previousLoadedUrl) ==
  IF i > Len(hist) THEN FALSE
  ELSE
    LET entry == hist[i]
        isMatch == JsGte(entry.startCommandId, sinceCommandId)
        isReload == trigger = "reload" /\ IsNavigationReload(entry.navigationReason)
        isInPageUrlAdjust ==
          /\ entry.navigationReason = "inPage"
          /\ Len(Replace(entry.finalUrl, previousLoadedUrl)) <= 1
        isChange ==
          /\ trigger = "change"
          /\ previousLoadedUrl # <<>>
          /\ previousLoadedUrl # entry.finalUrl
          /\ ~isInPageUrlAdjust
        loaded ==
          /\ \/ "HttpResponded" \in StatusKeys(entry)
             \/ "DomContentLoaded" \in StatusKeys(entry)
          /\ "HttpRedirected" \notin StatusKeys(entry)
    IN IF isMatch /\ (isReload \/ isChange) THEN TRUE
       ELSE HasLocationTriggerFrom(hist, trigger, sinceCommandId, i + 1,
                                   IF loaded THEN entry.finalUrl ELSE previousLoadedUrl)

HasLocationTrigger(hist, trigger, sinceCommandId) ==
  HasLocationTriggerFrom(hist, trigger, sinceCommandId, 1, <<>>)

\* mutant: the loop shifts the entries off the history as it walks it
HasLocationTriggerCall_ShiftsHistory(w, trigger, sinceCommandId) ==
  [result |-> HasLocationTrigger(w.history, trigger, sinceCommandId),
   state |-> [w EXCEPT !.history = <<>>]]

\* a call of hasLocationTrigger in state w: what it returns and the state it leaves
HasLocationTriggerCall(w, trigger, sinceCommandId) ==
  [result |-> HasLocationTrigger(w.history, trigger, sinceCommandId),
   state |-> w]

\* mutant: cancelWaiting rejects the top entry's resourceId, tracked or not
CancelWaiting_RejectsTop(w) ==
  LET w1 == ClearTimeout(w, w.waitingForLoadTimeout)
      w2 == IF Len(w.history) > 0
            THEN [w1 EXCEPT !.history[Len(w.history)].resourceId =
                               PromiseReject(@, "CanceledPromiseError")]
            ELSE w1
  IN IF w.statusTriggerResolvable # 0
     THEN [w2 EXCEPT !.promises[w.statusTriggerResolvable] =
                        PromiseReject(@, "CanceledPromiseError")]
     ELSE w2

\* mutant: cancelWaiting without the isResolved test
CancelTargets_IgnoreIsResolved(w) ==
  { t \in {"resourceId", "statusTrigger"} :
      \/ t = "resourceId" /\ w.resourceIdResolvable # 0
      \/ t = "statusTrigger" /\ w.statusTriggerResolvable # 0 }

\* the promises cancelWaiting calls reject on: those set and not yet resolved
CancelTargets(w) ==
  { t \in {"resourceId", "statusTrigger"} :
      \/ /\ t = "resourceId"
         /\ w.resourceIdResolvable # 0
         /\ ~IsResolved(w.history[w.resourceIdResolvable].resourceId)
      \/ /\ t = "statusTrigger"
         /\ w.statusTriggerResolvable # 0
         /\ ~IsResolved(w.promises[w.statusTriggerResolvable]) }

\* mutant: cancelWaiting without clearTimeout
CancelWaiting_NoClearTimeout(w) ==
  LET w2 == IF "resourceId" \in CancelTargets(w)
            THEN [w EXCEPT !.history[w.resourceIdResolvable].resourceId =
                              PromiseReject(@, "CanceledPromiseError")]
            ELSE w
  IN IF "statusTrigger" \in CancelTargets(w)
     THEN [w2 EXCEPT !.promises[w.statusTriggerResolvable] =
                        PromiseReject(@, "CanceledPromiseError")]
     ELSE w2

CancelWaiting(w) ==
  LET w1 == ClearTimeout(w, w.waitingForLoadTimeout)
      w2 == IF "resourceId" \in CancelTargets(w)
            THEN [w1 EXCEPT !.history[w.resourceIdResolvable].resourceId =
                               PromiseReject(@, "CanceledPromiseError")]
            ELSE w1
  IN IF "statusTrigger" \in CancelTargets(w)
     THEN [w2 EXCEPT !.promises[w.statusTriggerResolvable] =
                        PromiseReject(@, "CanceledPromiseError")]
     ELSE w2

ResolvePendingStatus(w) ==
  IF w.statusTriggerResolvable # 0 /\ ~IsResolved(w.promises[w.statusTriggerResolvable])
  THEN [ClearTimeout(w, w.waitingForLoadTimeout) EXCEPT
          !.promises[w.statusTriggerResolvable] = PromiseResolve(@),
          !.statusTriggerResolvable = 0,
          !.statusTrigger = Null,
          !.statusTriggerStartCommandId = NoValue]
  ELSE w

\* setTimeout(...): a handle no armed timer has
NewTimeout(w) == CHOOSE h \in 1..(Cardinality(w.timeouts) + 1) :
                   /\ h \notin w.timeouts
                   /\ \A k \in 1..(h - 1) : k \in w.timeouts

\* mutant: a re-evaluation that finds the settlement timer armed resolves the wait
WaitForPageLoaded_ResolvesWhenArmed(w) ==
  LET w1 == ClearTimeout(w, w.waitingForLoadTimeout)
      status == w1.paintStable
      w2 == IF status.isStable \/ w.waitingForLoadTimeout \in w.timeouts
            THEN ResolvePendingStatus(w1) ELSE w1
  IN IF ~status.isStable /\ ~Falsy(status.timeUntilReadyMs)
        /\ w.waitingForLoadTimeout \notin w.timeouts
     THEN [w2 EXCEPT !.waitingForLoadTimeout = NewTimeout(w2),
                     !.timeouts = @ \cup {NewTimeout(w2)}]
     ELSE w2

\* mutant: waitForPageLoaded does not clear the timer set before
WaitForPageLoaded_NoClearTimeout(w) ==
  LET status == w.paintStable
      w2 == IF status.isStable THEN ResolvePendingStatus(w) ELSE w
  IN IF ~status.isStable /\ ~Falsy(status.timeUntilReadyMs)
     THEN [w2 EXCEPT !.waitingForLoadTimeout = NewTimeout(w2),
                     !.timeouts = @ \cup {NewTimeout(w2)}]
     ELSE w2

\* mutant: the settlement timer is armed whether or not a remaining time is given
WaitForPageLoaded_ArmsWithoutTime(w) ==
  LET w1 == ClearTimeout(w, w.waitingForLoadTimeout)
      status == w1.paintStable
      w2 == IF status.isStable THEN ResolvePendingStatus(w1) ELSE w1
  IN IF ~status.isStable
     THEN [w2 EXCEPT !.waitingForLoadTimeout = NewTimeout(w2),
                     !.timeouts = @ \cup {NewTimeout(w2)}]
     ELSE w2

WaitForPageLoaded(w) ==
  LET w1 == ClearTimeout(w, w.waitingForLoadTimeout)
      status == w1.paintStable
      w2 == IF status.isStable THEN ResolvePendingStatus(w1) ELSE w1
  IN IF ~status.isStable /\ ~Falsy(status.timeUntilReadyMs)
     THEN [w2 EXCEPT !.waitingForLoadTimeout = NewTimeout(w2),
                     !.timeouts = @ \cup {NewTimeout(w2)}]
     ELSE w2

\* mutant: a pending location wait is re-evaluated since the default cursor
OnLoadStatusChange_SinceCursor(w) ==
  IF w.statusTrigger = "change" \/ w.statusTrigger = "reload"
  THEN LET call == HasLocationTriggerCall(w, w.statusTrigger,
                                          w.defaultWaitForLocationCommandId)
       IN IF call.result THEN ResolvePendingStatus(call.state) ELSE call.state
  ELSE
    LET loadTrigger == PipelineLookup(w.statusTrigger) IN
    IF \/ w.statusTriggerResolvable = 0
       \/ IsResolved(w.promises[w.statusTriggerResolvable])
       \/ Falsy(loadTrigger)
    THEN w
    ELSE IF w.statusTrigger = "PaintingStable"
    THEN WaitForPageLoaded(w)
    ELSE IF \E status \in StatusKeys(Top(w.history)) :
              /\ status # "HttpRedirected"
              /\ JsGte(PipelineLookup(status), loadTrigger)
         THEN ResolvePendingStatus(w)
         ELSE w

OnLoadStatusChange(w) ==
  IF w.statusTrigger = "change" \/ w.statusTrigger = "reload"
  THEN LET call == HasLocationTriggerCall(w, w.statusTrigger, w.statusTriggerStartCommandId)
       IN IF call.result THEN ResolvePendingStatus(call.state) ELSE call.state
  ELSE
    LET loadTrigger == PipelineLookup(w.statusTrigger) IN
    IF \/ w.statusTriggerResolvable = 0
       \/ IsResolved(w.promises[w.statusTriggerResolvable])
       \/ Falsy(loadTrigger)
    THEN w
    ELSE IF w.statusTrigger = "PaintingStable"
    THEN WaitForPageLoaded(w)
    ELSE IF \E status \in StatusKeys(Top(w.history)) :
              /\ status # "HttpRedirected"
              /\ JsGte(PipelineLookup(status), loadTrigger)
         THEN ResolvePendingStatus(w)
         ELSE w

\* the promises createStatusTriggeredPromise has cancelWaiting reject
SupersedeTargets(w) ==
  IF w.statusTriggerResolvable # 0 THEN CancelTargets(w) ELSE {}

\* mutant: the earlier trigger's promise is rejected, the settlement timer is left armed
CreateStatusTriggeredPromise_KeepsTimer(w, status, timeoutMs, sinceCommandId) ==
  LET w1 == IF w.statusTriggerResolvable # 0
            THEN [w EXCEPT !.promises[w.statusTriggerResolvable] =
                             PromiseReject(@, "CanceledPromiseError")]
            ELSE w
  IN [w1 EXCEPT
        !.statusTrigger = status,
        !.statusTriggerStartCommandId = sinceCommandId,
        !.promises = Append(@, CreatePromise(IF timeoutMs = NoValue
                                             THEN DefaultTimeoutMs ELSE timeoutMs)),
        !.statusTriggerResolvable = Len(w1.promises) + 1]

\* mutant: the earlier trigger is not canceled
CreateStatusTriggeredPromise_NoCancel(w, status, timeoutMs, sinceCommandId) ==
  [w EXCEPT
     !.statusTrigger = status,
     !.statusTriggerStartCommandId = sinceCommandId,
     !.promises = Append(@, CreatePromise(IF timeoutMs = NoValue
                                          THEN DefaultTimeoutMs ELSE timeoutMs)),
     !.statusTriggerResolvable = Len(w.promises) + 1]

\* mutant: the new trigger is installed first, cancelWaiting runs after
CreateStatusTriggeredPromise_InstallFirst(w, status, timeoutMs, sinceCommandId) ==
  LET w1 == CreateStatusTriggeredPromise_NoCancel(w, status, timeoutMs, sinceCommandId)
  IN IF w.statusTriggerResolvable # 0 THEN CancelWaiting(w1) ELSE w1

\* mutant: no default for timeoutMs
CreateStatusTriggeredPromise_NoDefaultTimeout(w, status, timeoutMs, sinceCommandId) ==
  LET w1 == IF w.statusTriggerResolvable # 0 THEN CancelWaiting(w) ELSE w
  IN [w1 EXCEPT
        !.statusTrigger = status,
        !.statusTriggerStartCommandId = sinceCommandId,
        !.promises = Append(@, CreatePromise(timeoutMs)),
        !.statusTriggerResolvable = Len(w1.promises) + 1]

CreateStatusTriggeredPromise(w, status, timeoutMs, sinceCommandId) ==
  LET w1 == IF w.statusTriggerResolvable # 0 THEN CancelWaiting(w) ELSE w
  IN [w1 EXCEPT
        !.statusTrigger = status,
        !.statusTriggerStartCommandId = sinceCommandId,
        !.promises = Append(@, CreatePromise(IF timeoutMs = NoValue
                                             THEN DefaultTimeoutMs ELSE timeoutMs)),
        !.statusTriggerResolvable = Len(w1.promises) + 1]

(***************************************************************************)
(* willRunCommand.  A command is [id, name]; Chars gives the characters of *)
(* the names the model uses, StartsWith is String.prototype.startsWith.    *)
(***************************************************************************)
CommandNames == {"goto", "click", "waitForLocation", "waitForLoad", "waitForMillis"}

Chars(name) ==
  CASE name = "goto"            -> <<"g","o","t","o">>
    [] name = "click"           -> <<"c","l","i","c","k">>
    [] name = "waitForLocation" -> <<"w","a","i","t","F","o","r","L","o","c","a","t","i","o","n">>
    [] name = "waitForLoad"     -> <<"w","a","i","t","F","o","r","L","o","a","d">>
    [] name = "waitForMillis"   -> <<"w","a","i","t","F","o","r","M","i","l","l","i","s">>

StartsWith(s, prefix) ==
  Len(s) >= Len(prefix) /\ SubSeq(s, 1, Len(prefix)) = prefix

\* the command names for which name.startsWith('waitFor')
WaitForNames ==
  { name \in CommandNames : StartsWith(Chars(name), <<"w","a","i","t","F","o","r">>) }

StartsWithWaitFor(name) == name \in WaitForNames

\* mutant: the loop without the rule for a command that follows a waitFor command
RECURSIVE ScanPreviousCommands_GotoOnly(_, _, _)
ScanPreviousCommands_GotoOnly(previousCommands, i, cursor) ==
  IF i > Len(previousCommands) THEN cursor
  ELSE
    LET command == previousCommands[i]
        c1 == IF command.name = "goto" THEN command.id ELSE cursor
    IN ScanPreviousCommands_GotoOnly(previousCommands, i + 1, c1)

\* the cursor after the loop over previousCommands[i..], last being the command before i
RECURSIVE ScanPreviousCommands(_, _, _)
ScanPreviousCommands(previousCommands, i, cursor) ==
  IF i > Len(previousCommands) THEN cursor
  ELSE
    LET command == previousCommands[i]
        c1 == IF command.name = "goto" THEN command.id ELSE cursor
        c2 == IF /\ i > 1
                 /\ StartsWithWaitFor(previousCommands[i - 1].name)
                 /\ ~StartsWithWaitFor(command.name)
              THEN command.id ELSE c1
    IN ScanPreviousCommands(previousCommands, i + 1, c2)

\* mutant: waitForMillis is not excepted
WillRunCommandCursor_MillisReanchors(cursor, newCommand, previousCommands) ==
  LET scanned == ScanPreviousCommands(previousCommands, 1, cursor)
      n == Len(previousCommands)
  IN IF /\ newCommand.name = "waitForLocation"
        /\ n > 0
        /\ StartsWithWaitFor(previousCommands[n].name)
     THEN newCommand.id
     ELSE scanned

\* mutant: any incoming command after a waitFor command other than waitForMillis
\* re-anchors the cursor
WillRunCommandCursor_AnyCommandReanchors(cursor, newCommand, previousCommands) ==
  LET scanned == ScanPreviousCommands(previousCommands, 1, cursor)
      n == Len(previousCommands)
  IN IF /\ n > 0
        /\ StartsWithWaitFor(previousCommands[n].name)
        /\ previousCommands[n].name # "waitForMillis"
     THEN newCommand.id
     ELSE scanned

WillRunCommandCursor(cursor, newCommand, previousCommands) ==
  LET scanned == ScanPreviousCommands(previousCommands, 1, cursor)
      n == Len(previousCommands)
  IN IF /\ newCommand.name = "waitForLocation"
        /\ n > 0
        /\ StartsWithWaitFor(previousCommands[n].name)
        /\ previousCommands[n].name # "waitForMillis"
     THEN newCommand.id
     ELSE scanned

\* the command lists the model runs: ids count from 1
RECURSIVE CommandLists(_)
CommandLists(n) ==
  IF n = 0 THEN {<<>>}
  ELSE CommandLists(n - 1) \cup
       { Append(l, [id |-> n, name |-> nm]) :
           l \in {x \in CommandLists(n - 1) : Len(x) = n - 1}, nm \in CommandNames }

AllCommandLists == CommandLists(MaxCommands)

(***************************************************************************)
(* Inputs of the model.                                                    *)
(***************************************************************************)
CommandIds == {0, 1}

\* the navigations the timeline starts
NavigationInputs ==
  { [startCommandId |-> 0, finalUrl |-> <<"a">>, navigationReason |-> "goto"],
    [startCommandId |-> 1, finalUrl |-> <<"b">>, navigationReason |-> "reload"] }

\* the milestones the timeline records, each after all those of lower rank
TimelineStatuses == {"NavigationRequested", "DomContentLoaded"}

\* the statuses callers wait for
WaitStatuses ==
  {"NavigationRequested", "HttpResponded", "DomContentLoaded", "PaintingStable", "bogus",
   "constructor"}

\* the triggers callers wait for
WaitTriggers == LocationTrigger \cup {"bogus", "constructor"}

WaitOptions ==
  { [sinceCommandId |-> NoValue, timeoutMs |-> NoValue],
    [sinceCommandId |-> NoValue, timeoutMs |-> 1000] }
  \cup { [sinceCommandId |-> c, timeoutMs |-> NoValue] : c \in CommandIds }

(***************************************************************************)
(* The state after construction.                                           *)
(***************************************************************************)
(***************************************************************************)
(* Tab (src/unnamed/part_000): frames and calls.  A FrameEnvironment is    *)
(* the number of its construction; environments[o] is the frameId object o *)
(* resolves to.  A lookup is one run of #getOrCreateFrameEnvironment: the  *)
(* position of its array iterator and the object whose frameId it awaits.  *)
(***************************************************************************)
MainFrame == 0
ChildFrames == 1..MaxFrames
Frames == {MainFrame} \cup ChildFrames

NoLookup == [state |-> "none", idx |-> 0, current |-> 0]

IdleCall ==
  [pc |-> "idle", frame |-> NoValue, newFrameIds |-> {}, idx |-> 0, current |-> 0,
   lookups |-> [f \in Frames |-> NoLookup]]

Init ==
  /\ history = <<>>
  /\ paintStable = NotPainted
  /\ defaultWaitForLocationCommandId = 0
  /\ waitingForLoadTimeout = 0
  /\ resourceIdResolvable = 0
  /\ statusTriggerResolvable = 0
  /\ statusTrigger = Null
  /\ statusTriggerStartCommandId = NoValue
  /\ promises = <<>>
  /\ timeouts = {}
  /\ resourceIdWait = [top |-> 0, at |-> "none"]
  /\ timers = <<>>
  /\ registry = <<>>
  /\ commands = <<>>
  /\ coreFrames = {MainFrame}
  /\ environments = <<MainFrame>>
  /\ frameEnvironments = <<1>>
  /\ calls = [p \in 1..MaxCalls |-> IdleCall]
  /\ last = [op |-> "constructor", result |-> "void", rejected |-> {}, disarmed |-> FALSE,
             timer |-> 0]

\* The variables take the values of state w.  last records the operation op, what
\* it returned or threw, the promises it called reject on, and whether it
\* disarmed an armed settlement timer (fired: the handles that fired in the step).
Becomes(w, op, result, rejected, fired) ==
  /\ Len(w.promises) <= MaxPromises
  /\ history' = w.history
  /\ paintStable' = w.paintStable
  /\ defaultWaitForLocationCommandId' = w.defaultWaitForLocationCommandId
  /\ waitingForLoadTimeout' = w.waitingForLoadTimeout
  /\ resourceIdResolvable' = w.resourceIdResolvable
  /\ statusTriggerResolvable' = w.statusTriggerResolvable
  /\ statusTrigger' = w.statusTrigger
  /\ statusTriggerStartCommandId' = w.statusTriggerStartCommandId
  /\ promises' = w.promises
  /\ timeouts' = w.timeouts
  /\ resourceIdWait' = w.resourceIdWait
  /\ UNCHANGED <<timers, registry, commands>>
  /\ UNCHANGED tabVars
  /\ last' = [op |-> op, result |-> result, rejected |-> rejected,
              disarmed |-> ((timeouts \ fired) \ w.timeouts # {}), timer |-> 0]

(***************************************************************************)
(* The observer's operations.                                              *)
(***************************************************************************)
WillRunCommand(newCommand, previousCommands) ==
  Becomes([State EXCEPT !.defaultWaitForLocationCommandId =
             WillRunCommandCursor(@, newCommand, previousCommands)],
          "willRunCommand", "void", {}, {})

\* mutant: waitForLocation without the hasLocationTrigger early return
WaitForLocation_NoEarlyReturn(status, options) ==
  IF ~EnumLookup(LocationTrigger, status)
  THEN Becomes(State, "waitForLocation", "AssertionError", {}, {})
  ELSE
    LET sinceCommandId == IF NumberIsInteger(options.sinceCommandId)
                          THEN options.sinceCommandId
                          ELSE defaultWaitForLocationCommandId
    IN Becomes(CreateStatusTriggeredPromise(State, status, options.timeoutMs,
                                            sinceCommandId),
               "waitForLocation", "promise", SupersedeTargets(State), {})

WaitForLocation(status, options) ==
  IF ~EnumLookup(LocationTrigger, status)
  THEN Becomes(State, "waitForLocation", "AssertionError", {}, {})
  ELSE
    LET sinceCommandId == IF NumberIsInteger(options.sinceCommandId)
                          THEN options.sinceCommandId
                          ELSE defaultWaitForLocationCommandId
        call == HasLocationTriggerCall(State, status, sinceCommandId)
    IN IF call.result
       THEN Becomes(call.state, "waitForLocation", "resolved", {}, {})
       ELSE Becomes(CreateStatusTriggeredPromise(call.state, status, options.timeoutMs,
                                                 sinceCommandId),
                    "waitForLocation", "promise", SupersedeTargets(call.state), {})

\* mutant: waitForLoad without the hasLoadStatus early return
WaitForLoad_NoEarlyReturn(status, options) ==
  IF ~EnumLookup(LoadStatus, status)
  THEN Becomes(State, "waitForLoad", "AssertionError", {}, {})
  ELSE IF ~Falsy(options.sinceCommandId)
  THEN Becomes(State, "waitForLoad", "Not implemented", {}, {})
  ELSE
    LET w1 == CreateStatusTriggeredPromise(State, status, options.timeoutMs, NoValue)
        w2 == IF Len(history) > 0 THEN OnLoadStatusChange(w1) ELSE w1
    IN Becomes(w2, "waitForLoad", "promise", SupersedeTargets(State), {})

\* mutant: waitForLoad cancels what is pending before it returns early
WaitForLoad_EarlyReturnCancels(status, options) ==
  IF ~EnumLookup(LoadStatus, status)
  THEN Becomes(State, "waitForLoad", "AssertionError", {}, {})
  ELSE IF ~Falsy(options.sinceCommandId)
  THEN Becomes(State, "waitForLoad", "Not implemented", {}, {})
  ELSE IF HasLoadStatus(history, status)
  THEN Becomes(CancelWaiting(State), "waitForLoad", "undefined", CancelTargets(State), {})
  ELSE
    LET w1 == CreateStatusTriggeredPromise(State, status, options.timeoutMs, NoValue)
        w2 == IF Len(history) > 0 THEN OnLoadStatusChange(w1) ELSE w1
    IN Becomes(w2, "waitForLoad", "promise", SupersedeTargets(State), {})

WaitForLoad(status, options) ==
  IF ~EnumLookup(LoadStatus, status)
  THEN Becomes(State, "waitForLoad", "AssertionError", {}, {})
  ELSE IF ~Falsy(options.sinceCommandId)
  THEN Becomes(State, "waitForLoad", "Not implemented", {}, {})
  ELSE IF HasLoadStatus(history, status)
  THEN Becomes(State, "waitForLoad", "undefined", {}, {})
  ELSE
    LET w1 == CreateStatusTriggeredPromise(State, status, options.timeoutMs, NoValue)
        w2 == IF Len(history) > 0 THEN OnLoadStatusChange(w1) ELSE w1
    IN Becomes(w2, "waitForLoad", "promise", SupersedeTargets(State), {})

WaitForReady == WaitForLoad("DomContentLoaded", [sinceCommandId |-> NoValue, timeoutMs |-> NoValue])

\* waitForNavigationResourceId up to its await (the caller makes one call at a time)
WaitForNavigationResourceId ==
  /\ resourceIdWait.at # "await"
  /\ Becomes([State EXCEPT !.resourceIdResolvable = Len(history),
                           !.resourceIdWait = [top |-> Len(history), at |-> "await"]],
             "waitForNavigationResourceId", "promise", {}, {})

\* how the call ends once its await is over: the await throws what the promise
\* was rejected with; otherwise the call throws top.navigationError if there is
\* one, and returns the resource id if not
ResourceIdOutcome(w) ==
  LET top == w.resourceIdWait.top IN
  IF top # 0 /\ w.history[top].resourceId.settle # "resolved"
  THEN w.history[top].resourceId.settle
  ELSE IF top # 0 /\ w.history[top].navigationError # Null
  THEN w.history[top].navigationError
  ELSE "returned"

\* waitForNavigationResourceId from its await on: it resumes once the promise
\* it awaits is settled (at once when there was no top entry), and ends
ResourceIdResumes ==
  /\ resourceIdWait.at = "await"
  /\ resourceIdWait.top # 0 => IsResolved(history[resourceIdWait.top].resourceId)
  /\ Becomes([State EXCEPT !.resourceIdWait = [top |-> 0, at |-> "none"]],
             "waitForNavigationResourceId-resumes", ResourceIdOutcome(State), {}, {})

CancelWaitingCall ==
  Becomes(CancelWaiting(State), "cancelWaiting", "void", CancelTargets(State), {})

\* the timeline emits status-change
StatusChange ==
  /\ Len(history) > 0
  /\ Becomes(OnLoadStatusChange(State), "status-change", "void", {}, {})

\* the settlement timer with handle h fires
SettlementTimeout(h) ==
  /\ h \in timeouts
  /\ Becomes(ResolvePendingStatus([State EXCEPT !.timeouts = @ \ {h}]),
             "settlement-timeout", "void", {}, {h})

\* the deadline of promise i passes
PromiseTimeout(i) ==
  /\ i \in 1..Len(promises)
  /\ promises[i].timeout
  /\ Becomes([State EXCEPT !.promises[i] = PromiseReject(@, "TimeoutError")],
             "promise-timeout", "void", {}, {})

(***************************************************************************)
(* The timeline's own steps.                                               *)
(***************************************************************************)
Navigate(nav) ==
  /\ Len(history) < MaxHistory
  /\ Len(history) > 0 =>
       /\ nav.startCommandId >= Top(history).startCommandId
       /\ "DomContentLoaded" \in StatusKeys(Top(history))
       /\ IsResolved(Top(history).resourceId)
  /\ Becomes([State EXCEPT
                !.history = Append(@, [startCommandId |-> nav.startCommandId,
                                       finalUrl |-> nav.finalUrl,
                                       navigationReason |-> nav.navigationReason,
                                       statusChanges |-> <<>>,
                                       navigationError |-> Null,
                                       resourceId |-> CreatePromise(NoValue)]),
                !.paintStable = NotPainted],
             "timeline", "void", {}, {})

RecordStatus(status) ==
  /\ Len(history) > 0
  /\ \A k \in TimelineStatuses :
       LoadStatusPipeline[k] < LoadStatusPipeline[status] <=> k \in StatusKeys(Top(history))
  /\ Becomes([State EXCEPT !.history[Len(history)].statusChanges = Append(@, status)],
             "timeline", "void", {}, {})

ResourceLoaded ==
  /\ Len(history) > 0
  /\ ~IsResolved(Top(history).resourceId)
  /\ Becomes([State EXCEPT !.history[Len(history)].resourceId = PromiseResolve(@)],
             "timeline", "void", {}, {})

\* the resource of entry k is loaded
ResourceLoadedAt(k) ==
  /\ k \in 1..Len(history)
  /\ ~IsResolved(history[k].resourceId)
  /\ Becomes([State EXCEPT !.history[k].resourceId = PromiseResolve(@)],
             "timeline", "void", {}, {})

\* the navigation of entry k fails
NavigationFailedAt(k) ==
  /\ k \in 1..Len(history)
  /\ history[k].navigationError = Null
  /\ Becomes([State EXCEPT !.history[k].navigationError = "NavigationError"],
             "timeline", "void", {}, {})

Painted(status) ==
  /\ Len(history) > 0
  /\ status # paintStable
  /\ "DomContentLoaded" \in StatusKeys(Top(history))
  /\ Becomes([State EXCEPT !.paintStable = status], "timeline", "void", {}, {})

Next ==
  \/ \E status \in WaitTriggers, options \in WaitOptions :
       WaitForLocation(status, options)
  \/ \E status \in WaitStatuses, options \in WaitOptions :
       WaitForLoad(status, options)
  \/ WaitForReady
  \/ WaitForNavigationResourceId
  \/ ResourceIdResumes
  \/ CancelWaitingCall
  \/ StatusChange
  \/ \E h \in timeouts : SettlementTimeout(h)
  \/ \E i \in 1..Len(promises) : PromiseTimeout(i)
  \/ \E nav \in NavigationInputs : Navigate(nav)
  \/ \E status \in TimelineStatuses : RecordStatus(status)
  \/ ResourceLoaded
  \/ \E status \in PaintStates : Painted(status)

Spec == Init /\ [][Next]_vars

(***************************************************************************)
(* With fairness: the deadline timer of a promise, once armed, fires       *)
(* unless the promise is settled first (the runtime runs due timers).      *)
(***************************************************************************)
FairSpec == Spec /\ \A i \in 1..MaxPromises : WF_vars(PromiseTimeout(i))

(***************************************************************************)
(* The session runs commands: before each it tells the observer, then the  *)
(* command may wait for a location change while the timeline moves on.     *)
(***************************************************************************)
\* the command about to run after the commands of list previousCommands
NewCommands(previousCommands) ==
  { [id |-> Len(previousCommands) + 1, name |-> nm] : nm \in CommandNames }

\* the navigations commands start
CommandNavigations ==
  { [startCommandId |-> c, finalUrl |-> <<"a">>, navigationReason |-> r] :
      c \in 1..MaxCommands, r \in {"reload", "userInitiated"} }

CommandNext ==
  \/ \E previousCommands \in AllCommandLists :
       \E newCommand \in NewCommands(previousCommands) :
         WillRunCommand(newCommand, previousCommands)
  \/ \E status \in LocationTrigger :
       WaitForLocation(status, [sinceCommandId |-> NoValue, timeoutMs |-> NoValue])
  \/ \E nav \in CommandNavigations : Navigate(nav)

CommandSpec == Init /\ [][CommandNext]_vars

(***************************************************************************)
(* Location waits over longer histories: the timeline appends entries of   *)
(* every reason, url and load state while callers wait for a reload or a   *)
(* change.                                                                 *)
(***************************************************************************)
LocationUrls == { <<"a", "b">>, <<"a", "b", "/">>, <<"a", "b", "/", "c">> }

LocationReasons ==
  {"inPage", "userInitiated", "reload", "metaTagRefresh", "httpHeaderRefresh"}

LocationEntries ==
  { [startCommandId |-> c, finalUrl |-> u, navigationReason |-> r,
     statusChanges |-> sc, navigationError |-> Null,
     resourceId |-> PromiseResolve(CreatePromise(NoValue))] :
      c \in CommandIds, u \in LocationUrls, r \in LocationReasons,
      sc \in { <<>>, <<"HttpResponded">>, <<"HttpRedirected", "HttpResponded">> } }

\* the timeline appends an entry
LocationNavigate(entry) ==
  /\ Len(history) < MaxEntries
  /\ Len(history) > 0 => entry.startCommandId >= Top(history).startCommandId
  /\ Becomes([State EXCEPT !.history = Append(@, entry), !.paintStable = NotPainted],
             "timeline", "void", {}, {})

LocationNext ==
  \/ \E status \in LocationTrigger :
       \E options \in {x \in WaitOptions : x.timeoutMs = NoValue /\ x.sinceCommandId # 0} :
         WaitForLocation(status, options)
  \/ StatusChange
  \/ \E entry \in LocationEntries : LocationNavigate(entry)

LocationSpec == Init /\ [][LocationNext]_vars

(***************************************************************************)
(* Resource-id waits over longer histories: navigations start, load and    *)
(* fail independently while a caller waits for the resource id.            *)
(***************************************************************************)
\* the timeline appends an entry whose resource is still to load
ResourceNavigate(nav) ==
  /\ Len(history) < MaxEntries
  /\ Becomes([State EXCEPT
                !.history = Append(@, [startCommandId |-> nav.startCommandId,
                                       finalUrl |-> nav.finalUrl,
                                       navigationReason |-> nav.navigationReason,
                                       statusChanges |-> <<>>,
                                       navigationError |-> Null,
                                       resourceId |-> CreatePromise(NoValue)]),
                !.paintStable = NotPainted],
             "timeline", "void", {}, {})

ResourceNext ==
  \/ WaitForNavigationResourceId
  \/ ResourceIdResumes
  \/ CancelWaitingCall
  \/ \E nav \in NavigationInputs : ResourceNavigate(nav)
  \/ \E k \in 1..Len(history) : ResourceLoadedAt(k)
  \/ \E k \in 1..Len(history) : NavigationFailedAt(k)

ResourceSpec == Init /\ [][ResourceNext]_vars

\* With fairness: a call whose awaited promise is settled resumes (the runtime
\* runs the continuation of a settled await).
FairResourceSpec == ResourceSpec /\ WF_vars(ResourceIdResumes)

(***************************************************************************)
(* Every operation of the observer, willRunCommand included, called with   *)
(* valid arguments next to the timeline's steps.                           *)
(***************************************************************************)
FrameNext ==
  \/ WillRunCommand([id |-> 2, name |-> "click"], <<[id |-> 1, name |-> "goto"]>>)
  \/ \E status \in LocationTrigger :
       WaitForLocation(status, [sinceCommandId |-> NoValue, timeoutMs |-> NoValue])
  \/ \E status \in {"HttpResponded", "PaintingStable"} :
       WaitForLoad(status, [sinceCommandId |-> NoValue, timeoutMs |-> NoValue])
  \/ WaitForReady
  \/ WaitForNavigationResourceId
  \/ ResourceIdResumes
  \/ CancelWaitingCall
  \/ StatusChange
  \/ \E h \in timeouts : SettlementTimeout(h)
  \/ \E nav \in NavigationInputs : Navigate(nav)
  \/ \E status \in TimelineStatuses : RecordStatus(status)
  \/ ResourceLoaded
  \/ \E status \in PaintStates : Painted(status)

FrameSpec == Init /\ [][FrameNext]_vars

(***************************************************************************)
(* The load and location waits of the observer, called with valid          *)
(* arguments and every option, next to the timeline's steps and the timers *)
(* of the waits; no caller waits for a resource id.                        *)
(***************************************************************************)
WaitNext ==
  \/ \E status \in LocationTrigger, options \in WaitOptions :
       WaitForLocation(status, options)
  \/ \E status \in WaitStatuses \cap LoadStatus, options \in WaitOptions :
       WaitForLoad(status, options)
  \/ WaitForReady
  \/ CancelWaitingCall
  \/ StatusChange
  \/ \E h \in timeouts : SettlementTimeout(h)
  \/ \E i \in 1..Len(promises) : PromiseTimeout(i)
  \/ \E nav \in NavigationInputs : Navigate(nav)
  \/ \E status \in TimelineStatuses : RecordStatus(status)
  \/ \E status \in PaintStates : Painted(status)

WaitSpec == Init /\ [][WaitNext]_vars

\* With fairness: the deadline timer of a promise, once armed, fires unless the
\* promise is settled first.
FairWaitSpec == WaitSpec /\ \A i \in 1..MaxPromises : WF_vars(PromiseTimeout(i))

(***************************************************************************)
(* cancelWaiting next to the calls whose promises it rejects: a wait for   *)
(* PaintingStable with its settlement timer, and a wait for the resource   *)
(* id of the top navigation.                                               *)
(***************************************************************************)
CancelNext ==
  \/ WaitForLoad("PaintingStable", [sinceCommandId |-> NoValue, timeoutMs |-> NoValue])
  \/ WaitForNavigationResourceId
  \/ ResourceIdResumes
  \/ CancelWaitingCall
  \/ StatusChange
  \/ \E h \in timeouts : SettlementTimeout(h)
  \/ \E nav \in NavigationInputs : Navigate(nav)
  \/ \E status \in TimelineStatuses : RecordStatus(status)
  \/ ResourceLoaded
  \/ \E status \in PaintStates : Painted(status)

CancelSpec == Init /\ [][CancelNext]_vars

(***************************************************************************)
(* A location wait stays pending while the session announces further       *)
(* commands and the timeline appends entries and notifies the observer.    *)
(***************************************************************************)
PendingWaitEntries ==
  { [startCommandId |-> c, finalUrl |-> u, navigationReason |-> r,
     statusChanges |-> <<"HttpResponded">>, navigationError |-> Null,
     resourceId |-> PromiseResolve(CreatePromise(NoValue))] :
      c \in 1..MaxCommands, u \in {<<"a", "b">>, <<"a", "b", "/", "c">>},
      r \in {"reload", "userInitiated"} }

\* the options of the waits: no sinceCommandId, or command 0
PendingWaitOptions ==
  { [sinceCommandId |-> c, timeoutMs |-> NoValue] : c \in {NoValue, 0} }

PendingWaitNext ==
  \/ \E previousCommands \in AllCommandLists :
       \E newCommand \in NewCommands(previousCommands) :
         WillRunCommand(newCommand, previousCommands)
  \/ \E status \in LocationTrigger, options \in PendingWaitOptions :
       WaitForLocation(status, options)
  \/ StatusChange
  \/ \E entry \in PendingWaitEntries : LocationNavigate(entry)

PendingWaitSpec == Init /\ [][PendingWaitNext]_vars

(***************************************************************************)
(* The session issues its commands one after the other, with ids counting  *)
(* from 1, and announces each to the observer with all the commands issued *)
(* before it; a waitForLocation command then waits for its trigger.        *)
(***************************************************************************)
IssueCommand(name) ==
  /\ Len(commands) < MaxIssued
  /\ LET newCommand == [id |-> Len(commands) + 1, name |-> name]
     IN  /\ defaultWaitForLocationCommandId' =
              WillRunCommandCursor(defaultWaitForLocationCommandId, newCommand, commands)
         /\ commands' = Append(commands, newCommand)
  /\ UNCHANGED <<history, paintStable, waitingForLoadTimeout, resourceIdResolvable,
                 statusTriggerResolvable, statusTrigger, statusTriggerStartCommandId,
                 promises, timeouts, resourceIdWait, timers, registry>>
  /\ UNCHANGED tabVars
  /\ last' = [op |-> "willRunCommand", result |-> "void", rejected |-> {},
              disarmed |-> FALSE, timer |-> 0]

SessionWaitForLocation(status) ==
  /\ Len(commands) > 0
  /\ commands[Len(commands)].name = "waitForLocation"
  /\ WaitForLocation(status, [sinceCommandId |-> NoValue, timeoutMs |-> NoValue])

SessionNext ==
  \/ \E name \in CommandNames : IssueCommand(name)
  \/ \E status \in LocationTrigger : SessionWaitForLocation(status)

SessionSpec == Init /\ [][SessionNext]_vars

(***************************************************************************)
(* Timer (src/commons/Timer.ts).  A timer is a record: timeoutMillis, the  *)
(* registry flag (constructed with the shared list), armed (its runtime    *)
(* timeout is in the runtime's timer queue), elapsed (what elapsedMillis() *)
(* returns, counted up to timeoutMillis + 1) and expirePromise.  The       *)
(* handle of timer i's runtime timeout is i; a registry entry holds the    *)
(* handle and the timer whose expirePromise.reject it carries.  The text   *)
(* of the error message is not modelled.                                   *)
(***************************************************************************)
TimerState == [timers |-> timers, registry |-> registry]

\* the durations a Timer is constructed with: the shortest and the longest
TimeoutMillisInputs == {1, MaxTimeoutMillis}

\* the errors a caller hands to expireAll
ExpireAllErrors == {"CanceledPromiseError", "SessionClosedError"}

\* registry.findIndex(x => x.timeout === handle), counted from 1; 0: not found
FindIndex(reg, handle) ==
  IF \E k \in 1..Len(reg) : reg[k].timeout = handle
  THEN CHOOSE k \in 1..Len(reg) :
         /\ reg[k].timeout = handle
         /\ \A j \in 1..(k - 1) : reg[j].timeout # handle
  ELSE 0

\* registry.splice(idx, 1)
Splice(reg, idx) == SubSeq(reg, 1, idx - 1) \o SubSeq(reg, idx + 1, Len(reg))

\* mutant: clear() leaves the runtime timeout armed
TimerClear_KeepsArmed(t, i) ==
  LET idx == FindIndex(t.registry, i)
  IN  [t EXCEPT !.registry = IF t.timers[i].registry /\ idx >= 1
                             THEN Splice(@, idx) ELSE @]

\* mutant: clear() splices whatever findIndex returned, -1 (the last entry) included
TimerClear_SpliceUnguarded(t, i) ==
  LET idx == FindIndex(t.registry, i)
  IN  [t EXCEPT !.registry = IF t.timers[i].registry
                             THEN Splice(@, IF idx >= 1 THEN idx ELSE Len(@)) ELSE @,
                !.timers[i].armed = FALSE]

\* clear()
TimerClear(t, i) ==
  LET idx == FindIndex(t.registry, i)
  IN  [t EXCEPT !.registry = IF t.timers[i].registry /\ idx >= 1
                             THEN Splice(@, idx) ELSE @,
                !.timers[i].armed = FALSE]

\* mutant: expire() rejects the promise and leaves the registry alone
TimerExpire_NoClear(t, i) ==
  [t EXCEPT !.timers[i].expirePromise = PromiseReject(@, "TimeoutError"),
            !.timers[i].armed = FALSE]

\* expire(): the callback of the runtime timeout
TimerExpire(t, i) ==
  TimerClear([t EXCEPT !.timers[i].expirePromise = PromiseReject(@, "TimeoutError")], i)

\* isExpired()
IsExpired(timer) == timer.elapsed > timer.timeoutMillis

\* mutant: expireAll rejects the entries and leaves their runtime timeouts armed
RECURSIVE TimerExpireAll_KeepsArmed(_, _)
TimerExpireAll_KeepsArmed(t, error) ==
  IF Len(t.registry) = 0 THEN t
  ELSE LET next == Head(t.registry)
       IN  TimerExpireAll_KeepsArmed(
             [t EXCEPT !.registry = Tail(@),
                       !.timers[next.reject].expirePromise = PromiseReject(@, error)],
             error)

\* expireAll(registry, error)
RECURSIVE TimerExpireAll(_, _)
TimerExpireAll(t, error) ==
  IF Len(t.registry) = 0 THEN t
  ELSE LET next == Head(t.registry)
       IN  TimerExpireAll(
             [t EXCEPT !.registry = Tail(@),
                       !.timers[next.timeout].armed = FALSE,
                       !.timers[next.reject].expirePromise = PromiseReject(@, error)],
             error)

\* The timers and the registry take the values of t; the observer is not
\* involved.  last records the operation, the timer it was called on (0: none)
\* and the timers whose expirePromise.reject it called.
TimerBecomes(t, op, result, rejected, i) ==
  /\ timers' = t.timers
  /\ registry' = t.registry
  /\ UNCHANGED <<history, paintStable, defaultWaitForLocationCommandId,
                 waitingForLoadTimeout, resourceIdResolvable, statusTriggerResolvable,
                 statusTrigger, statusTriggerStartCommandId, promises, timeouts,
                 resourceIdWait, commands>>
  /\ UNCHANGED tabVars
  /\ last' = [op |-> op, result |-> result, rejected |-> rejected,
              disarmed |-> (\E j \in 1..Len(timers) : timers[j].armed /\ ~t.timers[j].armed),
              timer |-> i]

\* new Timer(timeoutMillis, registry?)
NewTimer(timeoutMillis, withRegistry) ==
  /\ Len(timers) < MaxTimers
  /\ LET i == Len(timers) + 1
     IN  TimerBecomes(
           [timers |-> Append(timers, [timeoutMillis |-> timeoutMillis,
                                       registry |-> withRegistry,
                                       armed |-> TRUE,
                                       elapsed |-> 0,
                                       expirePromise |-> CreatePromise(NoValue)]),
            registry |-> IF withRegistry
                         THEN Append(registry, [reject |-> i, timeout |-> i])
                         ELSE registry],
           "Timer.constructor", "timer", {}, i)

ClearCall(i) ==
  /\ i \in 1..Len(timers)
  /\ TimerBecomes(TimerClear(TimerState, i), "Timer.clear", "void", {}, i)

ThrowIfExpiredCall(i) ==
  /\ i \in 1..Len(timers)
  /\ IF IsExpired(timers[i])
     THEN TimerBecomes(TimerClear(TimerState, i), "Timer.throwIfExpired", "TimeoutError", {}, i)
     ELSE TimerBecomes(TimerState, "Timer.throwIfExpired", "void", {}, i)

ExpireAllCall(error) ==
  TimerBecomes(TimerExpireAll(TimerState, error), "Timer.expireAll", "void",
               {registry[k].reject : k \in 1..Len(registry)}, 0)

\* the runtime runs the callback of timer i's timeout: it is armed and its
\* delay has passed
TimerFires(i) ==
  /\ i \in 1..Len(timers)
  /\ timers[i].armed
  /\ timers[i].elapsed >= timers[i].timeoutMillis
  /\ TimerBecomes(TimerExpire(TimerState, i), "Timer.expire", "void", {i}, i)

\* a millisecond passes
Tick ==
  /\ \E i \in 1..Len(timers) : timers[i].elapsed <= timers[i].timeoutMillis
  /\ TimerBecomes(
       [TimerState EXCEPT !.timers =
          [i \in 1..Len(timers) |->
             [timers[i] EXCEPT !.elapsed =
                IF @ <= timers[i].timeoutMillis THEN @ + 1 ELSE @]]],
       "tick", "void", {}, 0)

TimerNext ==
  \/ \E timeoutMillis \in TimeoutMillisInputs, withRegistry \in BOOLEAN :
       NewTimer(timeoutMillis, withRegistry)
  \/ \E i \in 1..MaxTimers : ClearCall(i)
  \/ \E i \in 1..MaxTimers : ThrowIfExpiredCall(i)
  \/ \E error \in ExpireAllErrors : ExpireAllCall(error)
  \/ \E i \in 1..MaxTimers : TimerFires(i)
  \/ Tick

TimerSpec == Init /\ [][TimerNext]_vars

\* the runtime runs the callback of every armed timeout whose delay has passed,
\* and time passes
FairTimerSpec ==
  TimerSpec /\ WF_vars(Tick) /\ \A i \in 1..MaxTimers : WF_vars(TimerFires(i))

(***************************************************************************)
(* Tab: the frameEnvironments getter and getFrameEnvironment.  Every await *)
(* is a point where the other calls and the core may run.                  *)
(***************************************************************************)
TabState == [environments |-> environments, frameEnvironments |-> frameEnvironments]

\* frameEnvironments.indexOf(object), counted from 1; 0: not found (-1)
IndexOf(arr, object) ==
  IF \E k \in 1..Len(arr) : arr[k] = object
  THEN CHOOSE k \in 1..Len(arr) : arr[k] = object /\ \A j \in 1..(k - 1) : arr[j] # object
  ELSE 0

\* frameEnvironments.splice(idx, 1): a start of -1 counts from the end
SpliceAt(arr, idx) ==
  IF idx >= 1 THEN Splice(arr, idx)
  ELSE IF Len(arr) = 0 THEN arr ELSE Splice(arr, Len(arr))

\* the frames of a list, in the order coreFrames.map visits them
RECURSIVE FramesInOrder(_)
FramesInOrder(frames) ==
  IF frames = {} THEN <<>>
  ELSE LET f == CHOOSE x \in frames : \A y \in frames : x <= y
       IN  <<f>> \o FramesInOrder(frames \ {f})

\* new FrameEnvironment(...) for coreFrame f, pushed on the list
PushNew(t, f) ==
  [environments |-> Append(t.environments, f),
   frameEnvironments |-> Append(t.frameEnvironments, Len(t.environments) + 1)]

\* #getOrCreateFrameEnvironment from the iterator's next() on: the loop is
\* over and a new environment is pushed, or the frameId of the next one is awaited
LookupAdvance(t, f, idx) ==
  IF idx > Len(t.frameEnvironments)
  THEN [tab |-> PushNew(t, f), lookup |-> [state |-> "done", idx |-> 0, current |-> 0]]
  ELSE [tab |-> t,
        lookup |-> [state |-> "await", idx |-> idx + 1, current |-> t.frameEnvironments[idx]]]

\* a lookup resumes with the frameId it awaited
LookupResume(t, f, lookup) ==
  IF t.environments[lookup.current] = f
  THEN [tab |-> t, lookup |-> [state |-> "done", idx |-> 0, current |-> 0]]
  ELSE LookupAdvance(t, f, lookup.idx)

\* coreFrames.map(x => this.#getOrCreateFrameEnvironment(x)): each call runs
\* up to its first await before the next one starts
RECURSIVE StartLookups(_, _, _)
StartLookups(t, lookups, order) ==
  IF Len(order) = 0 THEN [tab |-> t, lookups |-> lookups]
  ELSE LET f == Head(order)
           r == LookupAdvance(t, f, 1)
       IN  StartLookups(r.tab, [lookups EXCEPT ![f] = r.lookup], Tail(order))

\* the removal loop of #getRefreshedFrameEnvironments from the iterator's
\* next() on: the frameId of the next environment is awaited, or the loop is
\* over and the lookups of the core frames start
RemovalAdvance(t, call, idx) ==
  IF idx > Len(t.frameEnvironments)
  THEN LET r == StartLookups(t, call.lookups, FramesInOrder(call.newFrameIds))
       IN  [tab |-> r.tab,
            call |-> [call EXCEPT !.pc = "create", !.idx = 0, !.current = 0,
                                  !.lookups = r.lookups]]
  ELSE [tab |-> t,
        call |-> [call EXCEPT !.pc = "remove", !.idx = idx + 1,
                              !.current = t.frameEnvironments[idx]]]

\* the removal loop resumes with the frameId it awaited
RemovalResume(t, call) ==
  LET t2 == IF t.environments[call.current] \in call.newFrameIds
            THEN t
            ELSE [t EXCEPT !.frameEnvironments =
                             SpliceAt(@, IndexOf(@, call.current))]
  IN  RemovalAdvance(t2, call, call.idx)

\* The Tab takes the values of t and call p becomes call; the observer and
\* the timers are not involved.
TabBecomes(t, p, call, op, result) ==
  /\ environments' = t.environments
  /\ frameEnvironments' = t.frameEnvironments
  /\ calls' = [calls EXCEPT ![p] = call]
  /\ Len(t.environments) <= MaxEnvironments
  /\ UNCHANGED <<history, paintStable, defaultWaitForLocationCommandId,
                 waitingForLoadTimeout, resourceIdResolvable, statusTriggerResolvable,
                 statusTrigger, statusTriggerStartCommandId, promises, timeouts,
                 resourceIdWait, timers, registry, commands, coreFrames>>
  /\ last' = [op |-> op, result |-> result, rejected |-> {}, disarmed |-> FALSE,
              timer |-> p]

\* get frameEnvironments(): #getRefreshedFrameEnvironments is called and
\* awaits the core tab's frames
GetterCalled(p) ==
  /\ calls[p].pc = "idle"
  /\ TabBecomes(TabState, p, [IdleCall EXCEPT !.pc = "coreFrames"],
                "frameEnvironments", "promise")

\* coreTab.getCoreFrameEnvironments() answers and the removal loop starts
GetterGotCoreFrames(p) ==
  /\ calls[p].pc = "coreFrames"
  /\ LET r == RemovalAdvance(TabState, [calls[p] EXCEPT !.newFrameIds = coreFrames], 1)
     IN  TabBecomes(r.tab, p, r.call, "frameEnvironments-coreFrames", "promise")

GetterRemovalResumes(p) ==
  /\ calls[p].pc = "remove"
  /\ LET r == RemovalResume(TabState, calls[p])
     IN  TabBecomes(r.tab, p, r.call, "frameEnvironments-removal", "promise")

\* a lookup of call p resumes
LookupResumes(p, f) ==
  /\ calls[p].pc = "create"
  /\ calls[p].lookups[f].state = "await"
  /\ LET r == LookupResume(TabState, f, calls[p].lookups[f])
     IN  TabBecomes(r.tab, p, [calls[p] EXCEPT !.lookups[f] = r.lookup],
                    "getOrCreateFrameEnvironment", "promise")

\* every lookup of the call is over: the getter returns the list, or
\* getFrameEnvironment returns the environment
CallReturns(p) ==
  /\ calls[p].pc = "create"
  /\ \A f \in Frames : calls[p].lookups[f].state # "await"
  /\ TabBecomes(TabState, p, IdleCall,
                IF calls[p].frame = NoValue
                THEN "frameEnvironments-returns" ELSE "getFrameEnvironment-returns",
                "returned")

\* getFrameEnvironment(element) of the frame f: the core is asked for the
\* child frame of the element
GetFrameEnvironmentCalled(p, f) ==
  /\ calls[p].pc = "idle"
  /\ TabBecomes(TabState, p, [IdleCall EXCEPT !.pc = "frameMeta", !.frame = f],
                "getFrameEnvironment", "promise")

\* getChildFrameEnvironment answers: null when the frame is gone
GetFrameEnvironmentGotMeta(p) ==
  /\ calls[p].pc = "frameMeta"
  /\ IF calls[p].frame \in coreFrames
     THEN TabBecomes(TabState, p, [calls[p] EXCEPT !.pc = "coreTab"],
                     "getFrameEnvironment-frameMeta", "promise")
     ELSE TabBecomes(TabState, p, IdleCall, "getFrameEnvironment-returns", "null")

\* await this.#coreTab resumes and #getOrCreateFrameEnvironment starts
GetFrameEnvironmentLooksUp(p) ==
  /\ calls[p].pc = "coreTab"
  /\ LET r == StartLookups(TabState, calls[p].lookups, <<calls[p].frame>>)
     IN  TabBecomes(r.tab, p, [calls[p] EXCEPT !.pc = "create", !.lookups = r.lookups],
                    "getFrameEnvironment-lookup", "promise")

\* the core: a child frame is attached to the page, or detached from it
CoreFramesBecome(frames, op) ==
  /\ coreFrames' = frames
  /\ UNCHANGED <<history, paintStable, defaultWaitForLocationCommandId,
                 waitingForLoadTimeout, resourceIdResolvable, statusTriggerResolvable,
                 statusTrigger, statusTriggerStartCommandId, promises, timeouts,
                 resourceIdWait, timers, registry, commands,
                 environments, frameEnvironments, calls>>
  /\ last' = [op |-> op, result |-> "void", rejected |-> {}, disarmed |-> FALSE,
              timer |-> 0]

FrameAttached(f) ==
  /\ f \notin coreFrames
  /\ CoreFramesBecome(coreFrames \cup {f}, "frame-attached")

FrameDetached(f) ==
  /\ f \in coreFrames
  /\ CoreFramesBecome(coreFrames \ {f}, "frame-detached")

\* the steps of a call of the frameEnvironments getter by caller p
GetterNext(p) ==
  \/ GetterCalled(p)
  \/ GetterGotCoreFrames(p)
  \/ GetterRemovalResumes(p)
  \/ \E f \in Frames : LookupResumes(p, f)
  \/ CallReturns(p)

\* the steps of a call of getFrameEnvironment by caller p
GetFrameEnvironmentNext(p) ==
  \/ \E f \in ChildFrames : GetFrameEnvironmentCalled(p, f)
  \/ GetFrameEnvironmentGotMeta(p)
  \/ GetFrameEnvironmentLooksUp(p)
  \/ \E f \in ChildFrames : LookupResumes(p, f)
  \/ CallReturns(p)

CoreNext ==
  \/ \E f \in ChildFrames : FrameAttached(f)
  \/ \E f \in ChildFrames : FrameDetached(f)

\* caller 1 reads the frameEnvironments getter while the other callers call
\* getFrameEnvironment
TabNext ==
  \/ GetterNext(1)
  \/ \E p \in 2..MaxCalls : GetFrameEnvironmentNext(p)
  \/ CoreNext

TabSpec == Init /\ [][TabNext]_vars

\* the frameEnvironments getter is read again and again, one call at a time
SoloTabNext ==
  \/ GetterNext(1)
  \/ CoreNext

SoloTabSpec == Init /\ [][SoloTabNext]_vars

(***************************************************************************)
(* Properties.                                                             *)
(***************************************************************************)
observerVars == <<defaultWaitForLocationCommandId, waitingForLoadTimeout,
                  resourceIdResolvable, statusTriggerResolvable, statusTrigger,
                  statusTriggerStartCommandId>>

\* the promise the observer holds as its pending trigger is not settled
TriggerPending ==
  statusTriggerResolvable # 0 /\ promises[statusTriggerResolvable].settle = "pending"

\* the top entry records a milestone other than HttpRedirected of rank >= rank(S)
Qualifies(S) ==
  /\ Len(history) > 0
  /\ \E k \in StatusKeys(Top(history)) \ {"HttpRedirected"} :
       LoadStatusPipeline[k] >= LoadStatusPipeline[S]

\* what the pending trigger waits for is true of the timeline now
AwaitedCondition ==
  CASE statusTrigger \in LocationTrigger ->
         HasLocationTrigger(history, statusTrigger, statusTriggerStartCommandId)
    [] statusTrigger = "PaintingStable" -> paintStable.isStable
    [] statusTrigger \in LoadStatus \ {"PaintingStable"} -> Qualifies(statusTrigger)
    [] OTHER -> FALSE

\* C1: a pending waitForLoad(S), S a milestone the status map decides (every
\* load status but PaintingStable), is resolved by a status-change notification
\* if and only if the top entry then records a milestone other than
\* HttpRedirected of rank >= rank(S); this for every S, the lowest rank included.
C1_ResolvesIffMilestone ==
  [][ \A S \in LoadStatus \ {"PaintingStable"} :
        (statusTrigger = S /\ TriggerPending /\ last'.op = "status-change")
          => (promises'[statusTriggerResolvable].settle = "resolved" <=> Qualifies(S)) ]_vars

\* C2: a wait that registers a new trigger while the earlier one is unsettled
\* rejects the earlier promise with a Canceled error, and the rejection comes
\* before the installation: it is the earlier promise that is canceled, and the
\* new one is not.
C2_SupersededIsCanceled ==
  [][ (/\ last'.op \in {"waitForLoad", "waitForLocation"}
       /\ Len(promises') = Len(promises) + 1
       /\ TriggerPending)
      => /\ promises'[statusTriggerResolvable].settle = "CanceledPromiseError"
         /\ promises'[Len(promises')].settle # "CanceledPromiseError" ]_vars

C2_Witness ==
  /\ last.op \in {"waitForLoad", "waitForLocation"}
  /\ "statusTrigger" \in last.rejected
  /\ Len(promises) >= 2
  /\ promises[Len(promises) - 1].settle = "CanceledPromiseError"
  /\ statusTriggerResolvable = Len(promises)
  /\ TriggerPending

\* C3: at most one promise made by the observer for a status or location wait
\* is unsettled.
C3_AtMostOnePending ==
  Cardinality({i \in 1..Len(promises) : promises[i].settle = "pending"}) <= 1

C3_Witness ==
  /\ Len(promises) >= 2
  /\ promises[Len(promises) - 1].settle = "TimeoutError"
  /\ promises[Len(promises)].settle = "pending"
  /\ last.op = "status-change"

C5_EventuallySettled ==
  \A i \in 1..MaxPromises :
    (Len(promises) >= i /\ promises[i].settle = "pending")
      ~> (Len(promises) >= i /\ promises[i].settle # "pending")

C5_Witness ==
  /\ last.op = "promise-timeout"
  /\ statusTriggerResolvable # 0
  /\ promises[statusTriggerResolvable].settle = "TimeoutError"
  /\ \A k \in 1..Len(history) : history[k].statusChanges = <<>>

\* C6: cancelWaiting calls reject on exactly the tracked promises that are not
\* settled, leaves every settled promise as it was, and run right after
\* another cancelWaiting it rejects nothing and changes nothing.
C6_CancelIdempotent ==
  [][ last'.op = "cancelWaiting" =>
        /\ "statusTrigger" \in last'.rejected <=> TriggerPending
        /\ "resourceId" \in last'.rejected <=>
             (resourceIdResolvable # 0
              /\ history[resourceIdResolvable].resourceId.settle = "pending")
        /\ \A i \in 1..Len(promises) :
             promises[i].settle # "pending" => promises'[i] = promises[i]
        /\ \A k \in 1..Len(history) :
             history[k].resourceId.settle # "pending" => history'[k] = history[k]
        /\ last.op = "cancelWaiting" =>
             /\ last'.rejected = {}
             /\ promises' = promises
             /\ history' = history ]_vars

\* a second cancelWaiting right after a first that canceled the trigger
C6_Witness ==
  /\ last.op = "cancelWaiting"
  /\ last.rejected = {}
  /\ statusTriggerResolvable # 0
  /\ promises[statusTriggerResolvable].settle = "CanceledPromiseError"
  /\ resourceIdResolvable # 0
  /\ history[resourceIdResolvable].resourceId.settle = "CanceledPromiseError"

\* C7: cancelWaiting leaves no settlement timer armed, and rejects with a
\* Canceled error the pending trigger promise and the pending resource-id
\* promise it tracks.
C7_CancelDisarmsAndRejects ==
  [][ last'.op = "cancelWaiting" =>
        /\ timeouts' = {}
        /\ TriggerPending =>
             promises'[statusTriggerResolvable].settle = "CanceledPromiseError"
        /\ (resourceIdResolvable # 0
            /\ history[resourceIdResolvable].resourceId.settle = "pending") =>
             history'[resourceIdResolvable].resourceId.settle = "CanceledPromiseError" ]_vars

C7_Witness ==
  /\ last.op = "cancelWaiting"
  /\ last.disarmed
  /\ last.rejected = {"resourceId", "statusTrigger"}
  /\ statusTrigger = "PaintingStable"
  /\ timeouts = {}

\* C8: a status-change notification resolves the pending wait whenever what it
\* waits for is true of the timeline at that moment.
C8_LevelTriggered ==
  [][ (TriggerPending /\ AwaitedCondition /\ last'.op = "status-change")
        => promises'[statusTriggerResolvable].settle = "resolved" ]_vars

\* C9: waitForLoad(S) with S recorded on the top entry returns at once, makes no
\* promise, arms no timer and leaves the pending trigger as it is.
C9_AlreadyLoaded ==
  [][ (last'.op = "waitForLoad" /\ Len(history) > 0) =>
        \A S \in StatusKeys(Top(history)) \cap LoadStatus :
          \A o \in {x \in WaitOptions : x.sinceCommandId = NoValue} :
            WaitForLoad(S, o)
              => /\ last'.result = "undefined"
                 /\ UNCHANGED <<observerVars, promises, timeouts, history>> ]_vars

C9_Witness ==
  /\ last.op = "waitForLoad"
  /\ last.result = "undefined"
  /\ TriggerPending
  /\ timeouts # {}

\* C10: waitForLoad with options.sinceCommandId supplied, 0 included, throws
\* the unsupported-option error and changes nothing.
C10_SinceCommandIdRejected ==
  [][ last'.op = "waitForLoad" =>
        \A S \in LoadStatus :
          \A o \in {x \in WaitOptions : x.sinceCommandId # NoValue} :
            WaitForLoad(S, o)
              => /\ last'.result = "Not implemented"
                 /\ UNCHANGED <<observerVars, promises, timeouts, history>> ]_vars

\* C11: waitForLoad with a status that is not a load status, and waitForLocation
\* with a trigger that is not a location trigger, throw the invalid-argument
\* error and leave the observer, the promises and the timers as they were.
C11_InvalidArgumentRejected ==
  [][ /\ last'.op = "waitForLoad" =>
           \A S \in WaitStatuses \ LoadStatus : \A o \in WaitOptions :
             WaitForLoad(S, o)
               => /\ last'.result = "AssertionError"
                  /\ UNCHANGED <<observerVars, promises, timeouts, history>>
      /\ last'.op = "waitForLocation" =>
           \A S \in WaitTriggers \ LocationTrigger : \A o \in WaitOptions :
             WaitForLocation(S, o)
               => /\ last'.result = "AssertionError"
                  /\ UNCHANGED <<observerVars, promises, timeouts, history>> ]_vars

\* C12: waitForLocation whose trigger the history already satisfies returns an
\* already-resolved result, makes no promise, arms no timer and leaves the
\* pending trigger as it is.
C12_AlreadyLocated ==
  [][ last'.op = "waitForLocation" =>
        \A S \in LocationTrigger : \A o \in WaitOptions :
          (/\ HasLocationTrigger(history, S,
                                 IF o.sinceCommandId # NoValue THEN o.sinceCommandId
                                 ELSE defaultWaitForLocationCommandId)
           /\ WaitForLocation(S, o))
            => /\ last'.result = "resolved"
               /\ UNCHANGED <<observerVars, promises, timeouts, history>> ]_vars

\* a reload wait satisfied at the call, while a load wait is pending
C12_Witness ==
  /\ last.op = "waitForLocation"
  /\ last.result = "resolved"
  /\ TriggerPending
  /\ statusTrigger \in LoadStatus

\* C13: willRunCommand leaves the cursor a new observer would have after the
\* same call: the cursor depends on the two arguments only, not on the calls
\* made before.
C13_CursorIsFunctionOfCommands ==
  [][ last'.op = "willRunCommand" =>
        \A previousCommands \in AllCommandLists :
          \A newCommand \in NewCommands(previousCommands) :
            WillRunCommand(newCommand, previousCommands)
              => defaultWaitForLocationCommandId' =
                   WillRunCommandCursor(0, newCommand, previousCommands) ]_vars

\* the incoming command is waitForLocation and the command before it is a
\* waitFor command other than waitForMillis
BackToBackWait(newCommand, previousCommands) ==
  /\ newCommand.name = "waitForLocation"
  /\ Len(previousCommands) > 0
  /\ previousCommands[Len(previousCommands)].name \in {"waitForLocation", "waitForLoad"}

\* C14: willRunCommand sets the cursor to the incoming command's id when that
\* command is waitForLocation and follows a waitFor command other than
\* waitForMillis; otherwise the cursor is what it was or the id of an earlier
\* command, never set from the incoming one.  A waitForLocation without
\* sinceCommandId is then scoped by the cursor: it is satisfied at once exactly
\* when the history has the trigger since the cursor, and the trigger it
\* registers remembers the cursor.
C14_BackToBackWaitReanchors ==
  [][ /\ last'.op = "willRunCommand" =>
           \A previousCommands \in AllCommandLists :
             \A newCommand \in NewCommands(previousCommands) :
               WillRunCommand(newCommand, previousCommands)
                 => IF BackToBackWait(newCommand, previousCommands)
                    THEN defaultWaitForLocationCommandId' = newCommand.id
                    ELSE \/ defaultWaitForLocationCommandId' = defaultWaitForLocationCommandId
                         \/ \E i \in 1..Len(previousCommands) :
                              defaultWaitForLocationCommandId' = previousCommands[i].id
      /\ last'.op = "waitForLocation" =>
           \A S \in LocationTrigger :
             \A o \in {x \in WaitOptions : x.sinceCommandId = NoValue} :
               WaitForLocation(S, o)
                 => IF \E k \in 1..Len(history) :
                         /\ history[k].startCommandId >= defaultWaitForLocationCommandId
                         /\ IsNavigationReload(history[k].navigationReason)
                         /\ S = "reload"
                    THEN last'.result = "resolved"
                    ELSE /\ last'.result = "promise"
                         /\ statusTriggerStartCommandId' = defaultWaitForLocationCommandId ]_vars

\* after back-to-back waits moved the cursor past a reload, waitForLocation(reload)
\* is pending although the history holds that reload
C14_Witness ==
  /\ last.op = "waitForLocation"
  /\ last.result = "promise"
  /\ statusTrigger = "reload"
  /\ statusTriggerStartCommandId = defaultWaitForLocationCommandId
  /\ defaultWaitForLocationCommandId = MaxCommands + 1
  /\ Len(history) > 0
  /\ IsNavigationReload(Top(history).navigationReason)

\* the sinceCommandId waitForLocation uses with options o
SinceOf(o) ==
  IF o.sinceCommandId # NoValue THEN o.sinceCommandId ELSE defaultWaitForLocationCommandId

\* the history has an entry started at or after command since whose reason is a reload
ReloadSince(hist, since) ==
  \E k \in 1..Len(hist) :
    /\ hist[k].startCommandId >= since
    /\ hist[k].navigationReason \in {"httpHeaderRefresh", "metaTagRefresh", "reload"}

\* C15: a reload wait is satisfied exactly when the history has an entry with
\* startCommandId >= since whose reason is httpHeaderRefresh, metaTagRefresh or
\* reload: waitForLocation(reload) returns resolved exactly then and registers
\* a pending trigger otherwise, and a notification resolves a pending reload
\* wait exactly then and leaves it pending otherwise.
C15_ReloadTrigger ==
  [][ /\ last'.op = "waitForLocation" =>
           \A o \in WaitOptions :
             WaitForLocation("reload", o)
               => IF ReloadSince(history, SinceOf(o))
                  THEN last'.result = "resolved"
                  ELSE /\ last'.result = "promise"
                       /\ promises'[statusTriggerResolvable'].settle = "pending"
      /\ (last'.op = "status-change" /\ statusTrigger = "reload" /\ TriggerPending) =>
           IF ReloadSince(history, statusTriggerStartCommandId)
           THEN promises'[statusTriggerResolvable].settle = "resolved"
           ELSE promises' = promises /\ statusTriggerResolvable' = statusTriggerResolvable
    ]_vars

\* a reload wait since command 1 is still pending after a notification, the
\* history holding an earlier reload and a later navigation of another reason
C15_Witness ==
  /\ last.op = "status-change"
  /\ statusTrigger = "reload"
  /\ statusTriggerStartCommandId = 1
  /\ TriggerPending
  /\ Len(history) = 2
  /\ history[1].startCommandId = 0 /\ history[1].navigationReason = "reload"
  /\ history[2].startCommandId = 1 /\ history[2].navigationReason = "userInitiated"

\* the entry reached HttpResponded or DomContentLoaded and was not redirected
IsSettled(entry) ==
  /\ {"HttpResponded", "DomContentLoaded"} \cap StatusKeys(entry) # {}
  /\ "HttpRedirected" \notin StatusKeys(entry)

\* the url of the last settled entry before entry k (<<>>: there is none)
PreviousSettledUrl(hist, k) ==
  LET J == {j \in 1..(k - 1) : IsSettled(hist[j])}
  IN IF J = {} THEN <<>> ELSE hist[CHOOSE j \in J : \A m \in J : m <= j].finalUrl

\* url x is url y followed by n more characters
Gained(x, y, n) == Len(x) = Len(y) + n /\ SubSeq(x, 1, Len(y)) = y

\* the last entry of the history decides a change wait since command since: it
\* started at or after since and no entry before it satisfies the wait
LastDecides(hist, since) ==
  /\ Len(hist) > 0
  /\ hist[Len(hist)].startCommandId >= since
  /\ ~HasLocationTrigger(SubSeq(hist, 1, Len(hist) - 1), "change", since)

\* waitForLocation(change) finds the wait satisfied (sat) or registers a trigger
ChangeWaitReturns(sat) ==
  IF sat THEN last'.result = "resolved" ELSE last'.result = "promise"

C17_HasLocationTriggerIsPure ==
  [][ (\/ last'.op = "waitForLocation" /\ last'.result # "AssertionError"
       \/ last'.op = "status-change" /\ statusTrigger \in LocationTrigger)
      => /\ history' = history
         /\ \A S \in LocationTrigger, c \in CommandIds :
              HasLocationTrigger(history', S, c) = HasLocationTrigger(history, S, c)
         /\ (\/ last'.op = "waitForLocation" /\ last'.result = "resolved"
             \/ /\ last'.op = "status-change"
                /\ ~HasLocationTrigger(history, statusTrigger, statusTriggerStartCommandId))
              => UNCHANGED <<observerVars, promises, timeouts>> ]_vars

\* a notification found a change wait over two entries unsatisfied
C17_Witness ==
  /\ last.op = "status-change"
  /\ statusTrigger = "change"
  /\ TriggerPending
  /\ Len(history) = 2
  /\ ~HasLocationTrigger(history, statusTrigger, statusTriggerStartCommandId)

\* C19: once the entry a waitForNavigationResourceId call captured as top
\* carries a navigationError, the call ends by throwing that error, also when
\* the entry's resourceId promise is never resolved (a call whose promise
\* cancelWaiting rejected ends with the cancellation instead).
C19_NavigationErrorReachesWaiter ==
  (/\ resourceIdWait.at = "await"
   /\ resourceIdWait.top # 0
   /\ history[resourceIdWait.top].navigationError # Null)
    ~> (/\ last.op = "waitForNavigationResourceId-resumes"
        /\ last.result \in {"NavigationError", "CanceledPromiseError"})

\* C18 as stated: no operation of the observer changes the history: its
\* entries, their statusChanges, finalUrl and navigationError, and the
\* settlement of their resourceId promises.
C18_TimelineUntouched_Stated ==
  [][ last'.op # "timeline" => history' = history ]_vars

\* C18, amended: no operation of the observer changes the history list or an
\* entry's statusChanges, finalUrl or navigationError; the settlement of an
\* entry's resourceId promise is changed only by cancelWaiting, called directly
\* or by a wait superseding a trigger, which rejects with a Canceled error the
\* pending resourceId promise that waitForNavigationResourceId tracked last.
C18_TimelineUntouched ==
  [][ last'.op # "timeline" =>
        /\ Len(history') = Len(history)
        /\ \A k \in 1..Len(history) :
             /\ history'[k] = [history[k] EXCEPT !.resourceId = history'[k].resourceId]
             /\ history'[k].resourceId # history[k].resourceId =>
                  /\ last'.op \in {"cancelWaiting", "waitForLoad", "waitForLocation"}
                  /\ "resourceId" \in last'.rejected
                  /\ k = resourceIdResolvable
                  /\ history[k].resourceId.settle = "pending"
                  /\ history'[k].resourceId.settle = "CanceledPromiseError" ]_vars

\* cancelWaiting ran with a loading top entry that no waitForNavigationResourceId
\* call tracked, and willRunCommand has moved the cursor
C18_Witness ==
  /\ last.op = "cancelWaiting"
  /\ "statusTrigger" \in last.rejected
  /\ resourceIdResolvable = 0
  /\ defaultWaitForLocationCommandId = 1
  /\ Len(history) > 0
  /\ Top(history).resourceId.settle = "pending"

(***************************************************************************)
(* C20.  A Timer's expirePromise is rejected with a timeout error when its *)
(* duration elapses unless the timer was cleared first: the rejection      *)
(* never comes before timeoutMillis has passed; once clear() was called on *)
(* a timer whose expirePromise was pending, that promise is never rejected *)
(* with a timeout error; and every timer is eventually rejected with a     *)
(* timeout error, or cleared, or rejected by expireAll.                    *)
(***************************************************************************)
TimedOut(i) ==
  i \in 1..Len(timers) /\ timers[i].expirePromise.settle = "TimeoutError"

ClearedWhilePending(i) ==
  /\ last.op = "Timer.clear" \/ (last.op = "Timer.throwIfExpired" /\ last.result = "TimeoutError")
  /\ last.timer = i
  /\ timers[i].expirePromise.settle = "pending"

BulkExpired(i) ==
  i \in 1..Len(timers) /\ timers[i].expirePromise.settle \in ExpireAllErrors

C20_TimesOutUnlessCleared ==
  /\ [](\A i \in 1..MaxTimers :
          TimedOut(i) => timers[i].elapsed >= timers[i].timeoutMillis)
  /\ \A i \in 1..MaxTimers : [](ClearedWhilePending(i) => []~TimedOut(i))
  /\ \A i \in 1..MaxTimers :
       \/ [](i \notin 1..Len(timers))
       \/ <>(TimedOut(i) \/ ClearedWhilePending(i) \/ BulkExpired(i))

\* one timer was cleared before it fired and is still pending after its duration
\* has passed, while another was rejected with a timeout error
C20_Witness ==
  \E i, j \in 1..Len(timers) :
    /\ ClearedWhilePending(i)
    /\ last.op = "Timer.clear"
    /\ IsExpired(timers[i])
    /\ TimedOut(j)

(***************************************************************************)
(* C21.  clear() removes this timer's entry from the shared registry and   *)
(* disarms its runtime timeout; it removes no other timer's entry and      *)
(* changes no other timer; a second clear() right after the first changes  *)
(* neither the registry nor any timer.                                     *)
(***************************************************************************)
RegistryWithout(reg, i) ==
  LET Keep(e) == e.timeout # i IN SelectSeq(reg, Keep)

C21_ClearRemovesOwnEntryOnce ==
  [][ last'.op = "Timer.clear" =>
        LET i == last'.timer
        IN  /\ registry' = RegistryWithout(registry, i)
            /\ ~timers'[i].armed
            /\ \A j \in 1..Len(timers) : j # i => timers'[j] = timers[j]
            /\ (last.op = "Timer.clear" /\ last.timer = i)
                 => (registry' = registry /\ timers' = timers) ]_vars

\* a registered, armed timer was cleared while another timer's entry stays in the
\* registry
C21_Witness ==
  /\ last.op = "Timer.clear"
  /\ timers[last.timer].registry
  /\ Len(registry) = 1
  /\ registry[1].timeout # last.timer
  /\ last.disarmed

(***************************************************************************)
(* C22.  expireAll(registry, error) rejects every timer that has an entry  *)
(* in the registry when it is called with the supplied error, disarms its  *)
(* runtime timeout and leaves the registry empty; a timer without an entry *)
(* (cleared or expired before) is not touched; and the timeout callback    *)
(* never runs afterwards for a timer expireAll rejected.                   *)
(***************************************************************************)
Registered(reg) == {reg[k].reject : k \in 1..Len(reg)}

C22_ExpireAllRejectsRegistered ==
  [][ /\ \A error \in ExpireAllErrors :
           ExpireAllCall(error) =>
             /\ registry' = <<>>
             /\ last'.rejected = Registered(registry)
             /\ \A i \in Registered(registry) :
                  /\ timers'[i].expirePromise.settle = error
                  /\ ~timers'[i].armed
             /\ \A j \in (1..Len(timers)) \ Registered(registry) : timers'[j] = timers[j]
      /\ \A i \in 1..Len(timers) :
           BulkExpired(i) => ~(last'.op = "Timer.expire" /\ last'.timer = i) ]_vars

\* expireAll rejected one timer whose duration had passed, while the other timer,
\* constructed with the registry and cleared before, is still pending
C22_Witness ==
  /\ last.op = "Timer.expireAll"
  /\ \E i, j \in 1..Len(timers) :
       /\ last.rejected = {i}
       /\ BulkExpired(i)
       /\ timers[i].elapsed >= timers[i].timeoutMillis
       /\ timers[j].registry
       /\ ~timers[j].armed
       /\ timers[j].expirePromise.settle = "pending"

(***************************************************************************)
(* C23.  After willRunCommand(newCommand, previousCommands), when          *)
(* previousCommands holds a goto or a command that is not a waitFor        *)
(* command and comes right after one, and newCommand is not a              *)
(* waitForLocation right after a waitFor command other than waitForMillis, *)
(* the cursor is the id of the last such command of previousCommands.      *)
(***************************************************************************)
Anchors(previousCommands) ==
  { i \in 1..Len(previousCommands) :
      \/ previousCommands[i].name = "goto"
      \/ /\ i > 1
         /\ previousCommands[i - 1].name \in {"waitForLocation", "waitForLoad", "waitForMillis"}
         /\ previousCommands[i].name \in {"goto", "click"} }

LastAnchor(previousCommands) ==
  CHOOSE i \in Anchors(previousCommands) : \A j \in Anchors(previousCommands) : j <= i

C23_CursorIsLastAnchor ==
  [][ last'.op = "willRunCommand" =>
        \A previousCommands \in AllCommandLists :
          \A newCommand \in NewCommands(previousCommands) :
            ( /\ WillRunCommand(newCommand, previousCommands)
              /\ Anchors(previousCommands) # {}
              /\ ~BackToBackWait(newCommand, previousCommands) )
              => defaultWaitForLocationCommandId' =
                   previousCommands[LastAnchor(previousCommands)].id ]_vars

\* a wait was registered when the cursor was the id of an incoming back-to-back
\* waitForLocation, and a later willRunCommand brought the cursor back to the
\* last command of a list, which only a goto or a command after a waitFor does
C23_Witness ==
  /\ last.op = "willRunCommand"
  /\ defaultWaitForLocationCommandId = MaxCommands
  /\ statusTriggerResolvable # 0
  /\ statusTriggerStartCommandId = MaxCommands + 1

ChangeSince(hist, since) ==
  \E k \in 1..Len(hist) :
    LET prev == PreviousSettledUrl(hist, k)
    IN /\ hist[k].startCommandId >= since
       /\ prev # <<>>
       /\ prev # hist[k].finalUrl
       /\ ~(hist[k].navigationReason = "inPage" /\ Gained(hist[k].finalUrl, prev, 1))

SatisfiedSince(hist, trigger, since) ==
  IF trigger = "reload" THEN ReloadSince(hist, since) ELSE ChangeSince(hist, since)

C26_PendingWaitKeepsItsSince ==
  [][ /\ last'.op = "willRunCommand" =>
           UNCHANGED <<statusTrigger, statusTriggerStartCommandId,
                       statusTriggerResolvable, promises>>
      /\ (last'.op = "waitForLocation" /\ last'.result = "promise") =>
           statusTriggerStartCommandId' \in {0, defaultWaitForLocationCommandId}
      /\ (last'.op = "status-change" /\ statusTrigger \in LocationTrigger /\ TriggerPending) =>
           IF SatisfiedSince(history, statusTrigger, statusTriggerStartCommandId)
           THEN promises'[statusTriggerResolvable].settle = "resolved"
           ELSE /\ promises' = promises
                /\ UNCHANGED <<statusTrigger, statusTriggerStartCommandId,
                               statusTriggerResolvable>> ]_vars

\* a reload wait registered since the latest command is still pending after a
\* notification, although willRunCommand has since moved the cursor back to a
\* command at or before the reload the history holds
C26_Witness ==
  /\ last.op = "status-change"
  /\ statusTrigger = "reload"
  /\ TriggerPending
  /\ statusTriggerStartCommandId = MaxCommands + 1
  /\ defaultWaitForLocationCommandId < statusTriggerStartCommandId
  /\ ReloadSince(history, defaultWaitForLocationCommandId)

(***************************************************************************)
(* C27.  waitForLocation scopes the wait by options.sinceCommandId when an *)
(* integer was supplied, 0 included, and by the default cursor otherwise:  *)
(* the wait is satisfied at once exactly when the history satisfies the    *)
(* trigger since that command, and the trigger it registers otherwise      *)
(* remembers that command.                                                 *)
(***************************************************************************)
ScopeOf(o) ==
  IF o.sinceCommandId \in Nat THEN o.sinceCommandId ELSE defaultWaitForLocationCommandId

C27_SuppliedSinceIsUsed ==
  [][ last'.op = "waitForLocation" =>
        \A S \in LocationTrigger, o \in PendingWaitOptions :
          WaitForLocation(S, o)
            => IF SatisfiedSince(history, S, ScopeOf(o))
               THEN last'.result = "resolved"
               ELSE /\ last'.result = "promise"
                    /\ statusTriggerStartCommandId' = ScopeOf(o) ]_vars

\* a wait registered since command 0 while the default cursor stands at a later
\* command
C27_Witness ==
  /\ last.op = "waitForLocation"
  /\ last.result = "promise"
  /\ TriggerPending
  /\ statusTriggerStartCommandId = 0
  /\ defaultWaitForLocationCommandId > 0

(***************************************************************************)
(* C28.  A pending PaintingStable wait is re-evaluated by every            *)
(* notification, and by waitForLoad itself when the history has a top      *)
(* entry: when getPaintStableStatus() says stable the wait resolves in     *)
(* that step; when it says not stable with a positive timeUntilReadyMs the *)
(* wait stays pending and a settlement timer is armed; when it says not    *)
(* stable without a remaining time the wait stays pending and nothing is   *)
(* armed.  A settlement timer that fires resolves the pending wait,        *)
(* whatever the paint status says by then.  The wait is resolved by no     *)
(* other step.                                                             *)
(***************************************************************************)
PaintWaitPending == statusTrigger = "PaintingStable" /\ TriggerPending

\* the outcome of re-evaluating the PaintingStable wait held by promise p
PaintReevaluated(p) ==
  IF paintStable.isStable
  THEN /\ promises'[p].settle = "resolved"
       /\ timeouts' = timeouts \ {waitingForLoadTimeout}
  ELSE /\ promises'[p].settle = "pending"
       /\ statusTriggerResolvable' = p
       /\ statusTrigger' = "PaintingStable"
       /\ IF paintStable.timeUntilReadyMs > 0
          THEN /\ waitingForLoadTimeout' \in timeouts'
               /\ timeouts' \ {waitingForLoadTimeout'} = timeouts \ {waitingForLoadTimeout}
          ELSE timeouts' = timeouts \ {waitingForLoadTimeout}

C28_PaintingStableSettlement ==
  [][ /\ (last'.op = "status-change" /\ PaintWaitPending) =>
           PaintReevaluated(statusTriggerResolvable)
      /\ (last'.op = "waitForLoad" /\ Len(history) > 0) =>
           \A o \in {x \in WaitOptions : x.sinceCommandId = NoValue} :
             (WaitForLoad("PaintingStable", o) /\ last'.result = "promise")
               => PaintReevaluated(Len(promises'))
      /\ (last'.op = "settlement-timeout" /\ PaintWaitPending) =>
           promises'[statusTriggerResolvable].settle = "resolved"
      /\ (PaintWaitPending /\ promises'[statusTriggerResolvable].settle = "resolved") =>
           \/ last'.op = "status-change" /\ paintStable.isStable
           \/ last'.op = "settlement-timeout" ]_vars

\* the settlement timer fired and resolved the wait although the page is not
\* reported stable
C28_Witness ==
  /\ last.op = "settlement-timeout"
  /\ statusTriggerResolvable = 0
  /\ \E i \in 1..Len(promises) : promises[i].settle = "resolved"
  /\ ~paintStable.isStable

(***************************************************************************)
(* C29.  At most one settlement timer is armed, and it is the one the      *)
(* observer's waitingForLoadTimeout field refers to: a timer set by an     *)
(* earlier re-evaluation is no longer in the runtime's queue, so it cannot *)
(* fire.                                                                   *)
(***************************************************************************)
C29_OneSettlementTimer ==
  /\ Cardinality(timeouts) <= 1
  /\ timeouts \subseteq {waitingForLoadTimeout}

\* a notification found the page stable and resolved the PaintingStable wait,
\* disarming the settlement timer an earlier re-evaluation had armed
C29_Witness ==
  /\ last.op = "status-change"
  /\ last.disarmed
  /\ timeouts = {}
  /\ waitingForLoadTimeout # 0
  /\ statusTriggerResolvable = 0
  /\ paintStable.isStable

(***************************************************************************)
(* C30.  A notification delivered right after another, the timeline and    *)
(* the paint status being what they were, changes neither the pending      *)
(* trigger, nor its sinceCommandId, nor the default cursor, nor the        *)
(* outcome of any promise.                                                 *)
(***************************************************************************)
C30_DuplicateNotification ==
  [][ (last.op = "status-change" /\ last'.op = "status-change") =>
        UNCHANGED <<statusTrigger, statusTriggerStartCommandId, statusTriggerResolvable,
                    defaultWaitForLocationCommandId, resourceIdResolvable,
                    promises, history>> ]_vars

\* a notification left a PaintingStable wait pending with its settlement timer
\* armed, while an earlier wait was rejected: the next notification re-evaluates
\* the wait
C30_Witness ==
  /\ last.op = "status-change"
  /\ PaintWaitPending
  /\ timeouts # {}
  /\ \E i \in 1..Len(promises) : promises[i].settle = "CanceledPromiseError"

(***************************************************************************)
(* C31.  A waitForLocation or waitForLoad call that registers a trigger    *)
(* leaves the resource-id deferred the observer tracks as it was: when it  *)
(* is pending before the call it is pending after it.                      *)
(***************************************************************************)
C31_SupersessionSparesResourceId ==
  [][ ( /\ last'.op \in {"waitForLocation", "waitForLoad"}
        /\ last'.result = "promise"
        /\ resourceIdResolvable # 0
        /\ history[resourceIdResolvable].resourceId.settle = "pending" )
        => history'[resourceIdResolvable].resourceId.settle = "pending" ]_vars

(***************************************************************************)
(* C32.  While a settlement timer is armed the observer's trigger is       *)
(* PaintingStable and its promise is the one the timer was armed for: a    *)
(* timer is armed only by a step that leaves a pending PaintingStable      *)
(* trigger, a step that changes the trigger's promise leaves no timer      *)
(* armed unless it is the waitForLoad that armed it for the new promise,   *)
(* and a firing timer resolves no promise but the pending PaintingStable   *)
(* trigger's.                                                              *)
(***************************************************************************)
C32_TimerBelongsToPaintingStable ==
  /\ [](timeouts # {} => (statusTrigger = "PaintingStable" /\ statusTriggerResolvable # 0))
  /\ [][ /\ (timeouts' \ timeouts # {}) =>
              /\ statusTrigger' = "PaintingStable"
              /\ statusTriggerResolvable' # 0
              /\ promises'[statusTriggerResolvable'].settle = "pending"
         /\ (statusTriggerResolvable' # statusTriggerResolvable /\ timeouts' # {}) =>
              /\ last'.op = "waitForLoad"
              /\ statusTrigger' = "PaintingStable"
              /\ statusTriggerResolvable' = Len(promises')
         /\ last'.op = "settlement-timeout" =>
              \A i \in 1..Len(promises) :
                promises'[i] # promises[i] =>
                  /\ i = statusTriggerResolvable
                  /\ statusTrigger = "PaintingStable"
                  /\ promises'[i].settle = "resolved" ]_vars

\* a location wait was registered while the settlement timer of a PaintingStable
\* wait was armed: the timer is disarmed and the earlier wait canceled
C32_Witness ==
  /\ last.op = "waitForLocation"
  /\ last.result = "promise"
  /\ last.disarmed
  /\ timeouts = {}
  /\ statusTrigger \in LocationTrigger
  /\ TriggerPending
  /\ \E i \in 1..Len(promises) : promises[i].settle = "CanceledPromiseError"

(***************************************************************************)
(* C33.  A waitForLocation or waitForLoad call that returns at once        *)
(* because what it waits for already holds supersedes nothing: the         *)
(* trigger, its sinceCommandId, its promise, every promise's outcome and   *)
(* deadline and the settlement timer are what they were, and the call      *)
(* rejects nothing.                                                        *)
(***************************************************************************)
C33_SatisfiedWaitSupersedesNothing ==
  [][ ( \/ last'.op = "waitForLocation" /\ last'.result = "resolved"
        \/ last'.op = "waitForLoad" /\ last'.result = "undefined" )
        => /\ UNCHANGED <<statusTrigger, statusTriggerStartCommandId,
                          statusTriggerResolvable, promises, timeouts,
                          waitingForLoadTimeout, resourceIdResolvable>>
           /\ last'.rejected = {}
           /\ ~last'.disarmed ]_vars

\* waitForLoad returned at once while a location wait with its deadline armed is
\* pending
C33_Witness ==
  /\ last.op = "waitForLoad"
  /\ last.result = "undefined"
  /\ statusTrigger \in LocationTrigger
  /\ TriggerPending
  /\ promises[statusTriggerResolvable].timeout

(***************************************************************************)
(* C34 as stated.  With willRunCommand called once per issued command, the *)
(* ids increasing and the prior commands being all the commands issued     *)
(* before, the cursor never decreases from one call to the next, and a     *)
(* waitForLocation without sinceCommandId is never scoped to an earlier    *)
(* command than the waitForLocation before it was.                         *)
(***************************************************************************)
C34_CursorNeverDecreases_Stated ==
  [][ /\ last'.op = "willRunCommand" =>
           defaultWaitForLocationCommandId' >= defaultWaitForLocationCommandId
      /\ ( /\ last'.op = "waitForLocation"
           /\ last'.result = "promise"
           /\ statusTrigger \in LocationTrigger ) =>
           statusTriggerStartCommandId' >= statusTriggerStartCommandId ]_vars

\* command k is a waitForLocation that follows a waitFor command other than
\* waitForMillis: willRunCommand set the cursor to its id
Reanchored(k) ==
  /\ k \in 2..Len(commands)
  /\ commands[k].name = "waitForLocation"
  /\ commands[k - 1].name \in {"waitForLocation", "waitForLoad"}

\* C34, amended: the cursor never decreases from one call to the next, unless
\* the earlier call set it to the id of its own incoming waitForLocation (a
\* waitForLocation right after a waitFor command other than waitForMillis); and
\* a waitForLocation without sinceCommandId is never scoped to an earlier
\* command than the waitForLocation before it was, unless that one was scoped
\* to the id of such a re-anchored waitForLocation.
C34_CursorNeverDecreases ==
  [][ /\ last'.op = "willRunCommand" =>
           \/ defaultWaitForLocationCommandId' >= defaultWaitForLocationCommandId
           \/ /\ Reanchored(Len(commands))
              /\ defaultWaitForLocationCommandId = commands[Len(commands)].id
      /\ ( /\ last'.op = "waitForLocation"
           /\ last'.result = "promise"
           /\ statusTrigger \in LocationTrigger ) =>
           \/ statusTriggerStartCommandId' >= statusTriggerStartCommandId
           \/ \E k \in 1..Len(commands) :
                Reanchored(k) /\ commands[k].id = statusTriggerStartCommandId ]_vars

\* the call for the command after a re-anchored waitForLocation took the cursor
\* from that waitForLocation's id back to the goto before it
C34_Witness ==
  /\ last.op = "willRunCommand"
  /\ Len(commands) >= 4
  /\ commands[1].name = "goto"
  /\ Reanchored(Len(commands) - 1)
  /\ defaultWaitForLocationCommandId = commands[1].id

\* timer i has neither been cleared, nor fired, nor been rejected by expireAll
Untouched(i) ==
  /\ timers[i].armed
  /\ ~IsResolved(timers[i].expirePromise)

\* the number of entries of the registry that belong to timer i
EntriesOf(i) ==
  Cardinality({k \in 1..Len(registry) :
                 registry[k].reject = i \/ registry[k].timeout = i})

\* C35: in every reachable state the shared registry holds exactly one entry
\* for each Timer created with it that has neither been cleared, nor fired, nor
\* been rejected by expireAll, and no entry for any other timer; no timer has
\* two entries.
C35_RegistryHoldsTheLiveTimers ==
  /\ \A k \in 1..Len(registry) :
       /\ registry[k].reject \in 1..Len(timers)
       /\ registry[k].timeout = registry[k].reject
  /\ \A i \in 1..Len(timers) :
       EntriesOf(i) = IF timers[i].registry /\ Untouched(i) THEN 1 ELSE 0

\* the first of two timers of the registry has just fired and the second one,
\* untouched, is the registry's only entry
C35_Witness ==
  /\ Len(timers) = 2
  /\ timers[1].registry /\ timers[2].registry
  /\ last.op = "Timer.expire" /\ last.timer = 1
  /\ TimedOut(1)
  /\ Untouched(2)
  /\ Len(registry) = 1

\* the frameIds of the FrameEnvironment objects of a list
HeldFrames(arr) == {environments[arr[k]] : k \in 1..Len(arr)}

\* C36: under any interleaving of concurrent calls of the frameEnvironments
\* getter and of getFrameEnvironment, the Tab never holds two FrameEnvironment
\* objects for the same frameId.
C36_OneEnvironmentPerFrame ==
  \A j, k \in 1..Len(frameEnvironments) :
    j # k => environments[frameEnvironments[j]] # environments[frameEnvironments[k]]

\* C37: when the frameEnvironments getter completes with no concurrent call,
\* the list it returns holds a FrameEnvironment for every frame the core tab
\* reported to it and none for a frame id that is no longer reported, whatever
\* frames were removed, several adjacent ones of the previous list included.
C37_RefreshedListMatchesCoreFrames ==
  [][ last'.op = "frameEnvironments-returns" =>
        HeldFrames(frameEnvironments') = calls[1].newFrameIds ]_vars

====
